---------------------------- MODULE Spec2Model ----------------------------
(***************************************************************************)
(* A model of the w3g replay parser (package w3g): header decoding, block  *)
(* decompression, the walk over the decompressed payload (parseGameData)   *)
(* and the encoded-string decoder.                                         *)
(*                                                                         *)
(* Bytes are 0..255.  A u32 is kept as two 16-bit halves [hi, lo], so that *)
(* the 32-bit clock wraps as the Go uint32 does.  Offsets are 0-based as   *)
(* in the source; At(d, i) is data[i].                                     *)
(***************************************************************************)
EXTENDS Integers, Sequences, FiniteSets, TLC

VARIABLES
    strict,         \* Parser.Strict
    file,           \* the input: [hdr: bytes before the first block, blocks: block records]
    flen,           \* number of bytes of the input that are present (a prefix length)
    accepted,       \* the parse of the whole file returned a replay (set when a prefix is parsed)
    rpos,           \* read position of the io.Reader
    header,         \* *ReplayHeader returned by parseHeader (ok = FALSE: nil)
    err,            \* error returned by ParseStream ("nil": none)
    blkIdx,         \* decompressBlocks: loop index i
    data,           \* decompressBlocks: result buffer; parseGameData: data
    dataCap,        \* cap(data)
    pc,             \* control position
    offset,         \* parseGameData: offset
    players,        \* parseGameData: players
    playerNames,    \* parseGameData: playerNames
    chatMessages,   \* parseGameData: chatMessages
    actions,        \* parseGameData: actions
    currentTimeMs,  \* parseGameData: currentTimeMs (uint32)
    slots,          \* parseGameData: slots returned by parseGameStartRecord
    gameName,       \* parseGameData: gameName
    hostName,       \* parseGameData: hostName
    encodedData,    \* parseGameData: encodedData
    replay,         \* *W3GReplay returned (ok = FALSE: nil)
    encS,           \* encoded-string check: the plain byte string s; helper
                    \* checks: the byte-string argument
    encOut,         \* encoded-string check: result of decodeEncodedString;
                    \* helper checks: the string returned
    wpc,            \* IterActions: position of the goroutine it starts
    sendIdx,        \* IterActions: actions of replay.Actions already sent
    actionChClosed, \* IterActions: actionCh was closed
    errCh,          \* IterActions: the buffer of errCh (capacity 1)
    errChClosed,    \* IterActions: errCh was closed
    cpc,            \* the caller of IterActions: position
    received,       \* the caller: the actions received from actionCh
    gotErr          \* the caller: the value received from errCh

vars == <<strict, file, flen, accepted, rpos, header, err, blkIdx, data, dataCap, pc,
          offset, players, playerNames, chatMessages, actions, currentTimeMs,
          slots, gameName, hostName, encodedData, replay, encS, encOut,
          wpc, sendIdx, actionChClosed, errCh, errChClosed, cpc, received,
          gotErr>>

fileVars == <<strict, file, flen, accepted>>
gdVars   == <<offset, players, playerNames, chatMessages, actions,
              currentTimeMs, slots, gameName, hostName, encodedData>>
encVars  == <<encS, encOut>>
iterVars == <<wpc, sendIdx, actionChClosed, errCh, errChClosed, cpc, received,
              gotErr>>

-----------------------------------------------------------------------------
(* Integers of fixed width *)

Min(a, b) == IF a < b THEN a ELSE b

W16 == 256 * 256

\* a uint32 as two 16-bit halves
U32(hi, lo) == [hi |-> hi, lo |-> lo]
Zero32 == U32(0, 0)

\* uint32 + uint16, wrapping at 2^32 (parser.go: currentTimeMs += uint32(timeIncrement))
AddU16(c, inc) ==
    U32((c.hi + (c.lo + inc) \div W16) % W16, (c.lo + inc) % W16)

LeqU32(a, b) == a.hi < b.hi \/ (a.hi = b.hi /\ a.lo <= b.lo)

\* v >= n and v < n for a uint32 v and a small constant n
GeqSmall(v, n) == v.hi > 0 \/ v.lo >= n
LtSmall(v, n) == ~GeqSmall(v, n)

\* uint8(x) for a uint32 x
LowByte(v) == v.lo % 256

\* little-endian encodings used to build inputs
LE16(n) == <<n % 256, n \div 256>>
LE32(v) == LE16(v.lo) \o LE16(v.hi)

RECURSIVE Rep(_, _)
Rep(b, n) == IF n = 0 THEN <<>> ELSE <<b>> \o Rep(b, n - 1)

\* fmt.Sprintf("%d", n) as ASCII digits
RECURSIVE Dec(_)
Dec(n) == IF n < 10 THEN <<48 + n>> ELSE Dec(n \div 10) \o <<48 + (n % 10)>>

-----------------------------------------------------------------------------
(* constants.go *)

MagicString == <<87, 97, 114, 99, 114, 97, 102, 116, 32, 73, 73, 73, 32,
                 114, 101, 99, 111, 114, 100, 101, 100, 32, 103, 97, 109, 101,
                 26, 0>>

BaseHeaderSize == 48
SubHeaderV0Size == 16
SubHeaderV1Size == 20

GameIDClassic == <<87, 65, 82, 51>>     \* "WAR3"
GameIDTFT == <<87, 51, 88, 80>>         \* "W3XP"
GameIDReforged == <<80, 88, 51, 87>>    \* "PX3W"

ObserverTeamClassic == 12
ObserverTeamReforged == 24
ReforgedVersionThreshold == 29

BlockLeaveGame == 23
BlockGameStart == 25
BlockFirstStart == 26
BlockSecondStart == 27
BlockThirdStart == 28
BlockTimeSlotOld == 30
BlockTimeSlot == 31
BlockChat == 32
BlockChecksum == 34
BlockForcedEnd == 47
BlockOpaque23 == 35

RecordHost == 0
RecordAdditionalPlayer == 22

ChatFlagStartup == 16
ChatFlagNormal == 32

-----------------------------------------------------------------------------
(* Byte strings *)

U16At(s, i) == s[i + 1] + 256 * s[i + 2]
U32At(s, i) == U32(U16At(s, i + 2), U16At(s, i))

\* the payload is head \o FillerBlock^reps \o tail; the run of identical
\* blocks is kept as a count so that long payloads stay small states
FillerBlock == <<BlockTimeSlot, 2, 0, 255, 255>>
FillLen == Len(FillerBlock)

NoData == [head |-> <<>>, reps |-> 0, tail |-> <<>>]
Payload(h, n, t) == [head |-> h, reps |-> n, tail |-> t]

DataLen(d) == Len(d.head) + FillLen * d.reps + Len(d.tail)

\* data[i], 0 <= i < len(data)
At(d, i) ==
    IF i < Len(d.head) THEN d.head[i + 1]
    ELSE IF i < Len(d.head) + FillLen * d.reps
         THEN FillerBlock[((i - Len(d.head)) % FillLen) + 1]
         ELSE d.tail[i - Len(d.head) - FillLen * d.reps + 1]

\* binary.LittleEndian.Uint16(data[i:]) and Uint32(data[i:])
U16(d, i) == At(d, i) + 256 * At(d, i + 1)
U32D(d, i) == U32(U16(d, i + 2), U16(d, i))

RECURSIVE Fillers(_)
Fillers(n) == IF n = 0 THEN <<>> ELSE FillerBlock \o Fillers(n - 1)

\* bytes.Buffer.Write(out)
BufWrite(d, out) ==
    IF out.reps = 0 THEN [d EXCEPT !.tail = @ \o out.head \o out.tail]
    ELSE IF d.reps = 0 THEN Payload(d.head \o d.tail \o out.head, out.reps, out.tail)
    ELSE [d EXCEPT !.tail = @ \o out.head \o Fillers(out.reps) \o out.tail]

\* data[a:b] as a byte string, a <= b <= len(data)
RECURSIVE Slice(_, _, _)
Slice(d, a, b) == IF a >= b THEN <<>> ELSE <<At(d, a)>> \o Slice(d, a + 1, b)

\* first index >= i that holds a NUL, or len(data)
\* (for offset < len(data) && data[offset] != 0 { offset++ })
RECURSIVE ScanNul(_, _)
ScanNul(d, i) ==
    IF i < DataLen(d) /\ At(d, i) # 0 THEN ScanNul(d, i + 1) ELSE i

-----------------------------------------------------------------------------
(* header.go: parseHeader *)

NilHeader ==
    [ok |-> FALSE, Magic |-> <<>>, HeaderSize |-> Zero32,
     CompressedSize |-> Zero32, HeaderVersion |-> Zero32,
     DecompressedSize |-> Zero32, NumCompressedBlocks |-> Zero32,
     GameIdentifier |-> <<>>, Version |-> Zero32, BuildNumber |-> 0,
     Flags |-> 0, DurationMs |-> Zero32, CRC32 |-> Zero32]

\* bytes.Equal(magic, MagicString)
MagicOK(magic) == magic = MagicString

\* a variant check that looks at the low 16 bits only
HeaderVersionLow16(hv) == hv.lo = 0 \/ hv.lo = 1

\* switch headerVersion { case 0: ...; case 1: ...; default: error }
HeaderVersionKnown(hv) == hv = U32(0, 0) \/ hv = U32(0, 1)

SubHeaderSize(hv) == IF hv = U32(0, 0) THEN SubHeaderV0Size ELSE SubHeaderV1Size

\* the header fields read from the base header b and the sub-header s
HeaderOf(b, s) ==
    LET hv == U32At(b, 36)
        base == [NilHeader EXCEPT
                   !.ok = TRUE,
                   !.Magic = SubSeq(b, 1, 28),
                   !.HeaderSize = U32At(b, 28),
                   !.CompressedSize = U32At(b, 32),
                   !.HeaderVersion = hv,
                   !.DecompressedSize = U32At(b, 40),
                   !.NumCompressedBlocks = U32At(b, 44)]
    IN  IF hv = U32(0, 0)
        THEN [base EXCEPT
                !.Version = U32(0, U16At(s, 2)),
                !.BuildNumber = U16At(s, 4),
                !.Flags = U16At(s, 6),
                !.DurationMs = U32At(s, 8),
                !.CRC32 = U32At(s, 12),
                !.GameIdentifier = GameIDClassic]
        ELSE [base EXCEPT
                !.GameIdentifier = SubSeq(s, 1, 4),
                !.Version = U32At(s, 4),
                !.BuildNumber = U16At(s, 8),
                !.Flags = U16At(s, 10),
                !.DurationMs = U32At(s, 12),
                !.CRC32 = U32At(s, 16)]

\* parseHeader on a reader that delivers the bytes in (a byte string):
\* [err, header, n] with n the number of bytes consumed
ParseHeaderOf(in) ==
    IF Len(in) < BaseHeaderSize
    THEN [err |-> "Truncated", header |-> NilHeader, n |-> Len(in)]
    ELSE LET b == SubSeq(in, 1, BaseHeaderSize)
             hv == U32At(b, 36)
         IN  IF ~MagicOK(SubSeq(b, 1, 28))
             THEN [err |-> "InvalidHeader", header |-> NilHeader, n |-> BaseHeaderSize]
             ELSE IF ~HeaderVersionKnown(hv)
             THEN [err |-> "InvalidHeader", header |-> NilHeader, n |-> BaseHeaderSize]
             ELSE IF Len(in) < BaseHeaderSize + SubHeaderSize(hv)
             THEN [err |-> "Truncated", header |-> NilHeader, n |-> Len(in)]
             ELSE [err |-> "nil",
                   header |-> HeaderOf(b, SubSeq(in, BaseHeaderSize + 1,
                                                 BaseHeaderSize + SubHeaderSize(hv))),
                   n |-> BaseHeaderSize + SubHeaderSize(hv)]

\* ReplayHeader.IsReforged, IsExpansion
\* the version test alone
IsReforgedByVersion(h) == GeqSmall(h.Version, ReforgedVersionThreshold)

IsReforged(h) ==
    GeqSmall(h.Version, ReforgedVersionThreshold) \/ h.GameIdentifier = GameIDReforged

IsExpansion(h) ==
    h.GameIdentifier = GameIDTFT \/ h.GameIdentifier = GameIDReforged

-----------------------------------------------------------------------------
(* The input file as the reader sees it *)

RECURSIVE BlocksLen(_)
BlocksLen(bs) ==
    IF bs = <<>> THEN 0
    ELSE Len(bs[1].bh) + bs[1].size + BlocksLen(Tail(bs))

TotalLen(f) == Len(f.hdr) + BlocksLen(f.blocks)

\* number of bytes the reader can deliver
ReadableLen == Min(flen, TotalLen(file))

\* the bytes of the header region the reader can deliver
HdrBytes == SubSeq(file.hdr, 1, Min(Len(file.hdr), flen))

NilReplay ==
    [ok |-> FALSE, Header |-> NilHeader, GameName |-> <<>>, HostName |-> <<>>,
     Players |-> <<>>, ChatMessages |-> <<>>, Actions |-> <<>>]

-----------------------------------------------------------------------------
(* decompressor.go *)

\* decompressZlib on a payload whose zlib reading is z:
\*   z.hdr  "ok" when zlib.NewReader accepts the two-byte stream header
\*   z.out  the bytes r.Read delivers before it stops
\*   z.end  how r.Read stops: "EOF", "UnexpectedEOF" or "Corrupt"
DecompressZlib(z) ==
    IF z.hdr # "ok" THEN [err |-> TRUE, out |-> NoData]
    ELSE IF z.end \in {"EOF", "UnexpectedEOF"} THEN [err |-> FALSE, out |-> z.out]
    ELSE IF DataLen(z.out) = 0 THEN [err |-> TRUE, out |-> NoData]
    ELSE [err |-> FALSE, out |-> z.out]

\* decompressDeflate: io.ReadAll returns what was read together with the error
DecompressDeflate(f) == [err |-> f.end # "EOF", out |-> f.out]

\* the "Decompress" part of one iteration of decompressBlocks
DecompressBlock(blk, isReforged) ==
    IF isReforged THEN DecompressZlib(blk.zlib)
    ELSE LET d == DecompressDeflate(blk.deflate)
         IN  IF d.err THEN DecompressZlib(blk.zlib) ELSE d

\* the Classic framing for every file
BlockHeaderLenClassic(isReforged) == 8

BlockHeaderLen(isReforged) == IF isReforged THEN 12 ELSE 8

\* a loop test that lets the index reach the block count
MoreBlocksInclusive(i, n) == n.hi > 0 \/ i <= n.lo

\* i < header.NumCompressedBlocks
MoreBlocks(i, n) == n.hi > 0 \/ i < n.lo

-----------------------------------------------------------------------------
(* models.go *)

RaceHuman == 1
RaceOrc == 2
RaceNightElf == 4
RaceUndead == 8
RaceRandom == 32
RaceSelectable == 64
RaceUnknown == 255

SlotUsed == 2

LeaveResultWon == 9

\* flags & m != 0 for a single-bit mask m
HasBit(flags, m) == (flags \div m) % 2 = 1

\* RaceFromFlags
RaceFromFlags(flags) ==
    IF HasBit(flags, 1) THEN RaceHuman
    ELSE IF HasBit(flags, 2) THEN RaceOrc
    ELSE IF HasBit(flags, 4) THEN RaceNightElf
    ELSE IF HasBit(flags, 8) THEN RaceUndead
    ELSE IF HasBit(flags, 32) THEN RaceRandom
    ELSE IF HasBit(flags, 64) THEN RaceSelectable
    ELSE RaceUnknown

\* an APM value num / (den / scale); float64 rounding is not modelled
APMZero == [num |-> 0, den |-> U32(0, 1), scale |-> 1]

NilPtr == "nil"
ClockPtr == "&currentTimeMs"
NoResult == -1

\* PlayerInfo{} with Go's zero values (LeaveResult nil: NoResult)
ZeroPlayer ==
    [ID |-> 0, Name |-> <<>>, Race |-> 0, Team |-> 0, Color |-> 0,
     Handicap |-> 0, IsHost |-> FALSE, IsComputer |-> FALSE,
     IsObserver |-> FALSE, SlotStatus |-> 0, RuntimeMs |-> Zero32,
     ActionCount |-> 0, APM |-> APMZero, LeaveResult |-> NoResult,
     LeaveTimeMs |-> NilPtr]

-----------------------------------------------------------------------------
(* players.go *)

\* a mismatch that does not step back over the record ID
NoBacktrack(o) == o

\* return nil, offset - 1: the record ID that was read is given back
Backtrack(o) == o - 1

\* parsePlayerRecord: [ok, p, off]; ok = FALSE is the nil player
ParsePlayerRecord(d, off, isHost) ==
    LET n == DataLen(d)
        expectedID == IF isHost THEN RecordHost ELSE RecordAdditionalPlayer
        none(o) == [ok |-> FALSE, p |-> ZeroPlayer, off |-> o]
    IN  IF off >= n THEN none(off)
        ELSE IF At(d, off) # expectedID THEN none(Backtrack(off + 1))
        ELSE IF off + 1 >= n THEN none(off + 1)
        ELSE
          LET playerID == At(d, off + 1)
              nameStart == off + 2
              nameEnd == ScanNul(d, nameStart)
              name == Slice(d, nameStart, nameEnd)
              o3 == nameEnd + 1
          IN  IF o3 >= n
              THEN [ok |-> TRUE,
                    p |-> [ZeroPlayer EXCEPT !.ID = playerID, !.Name = name,
                                             !.IsHost = isHost, !.Handicap = 100],
                    off |-> o3]
              ELSE
                LET extraSize == At(d, o3)
                    o4 == o3 + 1
                    ladder == extraSize = 8 /\ o4 + 8 <= n
                    o5 == IF extraSize = 1 THEN o4 + 1
                          ELSE IF extraSize = 8 THEN (IF ladder THEN o4 + 8 ELSE o4)
                          ELSE o4 + extraSize
                IN  [ok |-> TRUE,
                     p |-> [ZeroPlayer EXCEPT
                              !.ID = playerID, !.Name = name,
                              !.Race = IF ladder
                                       THEN RaceFromFlags(LowByte(U32D(d, o4 + 4)))
                                       ELSE RaceUnknown,
                              !.IsHost = isHost,
                              !.RuntimeMs = IF ladder THEN U32D(d, o4) ELSE Zero32,
                              !.Handicap = 100],
                     off |-> o5]

\* the width of the current format for every version
SlotSizeCurrent(version) == 9

\* slot record width for a version
SlotSize(version) ==
    IF LtSmall(version, 3) THEN 7 ELSE IF LtSmall(version, 7) THEN 8 ELSE 9

\* parseSlotRecord: [ok, slot, off]
ParseSlotRecord(d, off, version) ==
    LET slotSize == SlotSize(version)
    IN  IF off + slotSize > DataLen(d)
        THEN [ok |-> FALSE, slot |-> <<>>, off |-> off]
        ELSE [ok |-> TRUE,
              slot |-> [PlayerID |-> At(d, off),
                        DownloadPercent |-> At(d, off + 1),
                        SlotStatus |-> At(d, off + 2),
                        IsComputer |-> (At(d, off + 3) = 1),
                        Team |-> At(d, off + 4),
                        Color |-> At(d, off + 5),
                        RaceFlags |-> At(d, off + 6),
                        AIStrength |-> IF slotSize >= 8 THEN At(d, off + 7) ELSE 0,
                        Handicap |-> IF slotSize >= 9 THEN At(d, off + 8) ELSE 100],
              off |-> off + slotSize]

\* the slot loop of parseGameStartRecord, i slots still to read
RECURSIVE ParseSlots(_, _, _, _)
ParseSlots(d, off, version, i) ==
    IF i = 0 THEN [slots |-> <<>>, off |-> off]
    ELSE LET r == ParseSlotRecord(d, off, version)
             rest == ParseSlots(d, r.off, version, i - 1)
         IN  [slots |-> (IF r.ok THEN <<r.slot>> ELSE <<>>) \o rest.slots,
              off |-> rest.off]

\* parseGameStartRecord: [slots, off]
ParseGameStartRecord(d, off, version) ==
    LET n == DataLen(d)
    IN  IF off >= n \/ At(d, off) # BlockGameStart THEN [slots |-> <<>>, off |-> off]
        ELSE IF off + 1 + 2 > n THEN [slots |-> <<>>, off |-> off + 1]
        ELSE IF off + 3 >= n THEN [slots |-> <<>>, off |-> off + 3]
        ELSE
          LET numSlots == At(d, off + 3)
              r == ParseSlots(d, off + 4, version, numSlots)
              o1 == IF r.off + 4 <= n THEN r.off + 4 ELSE r.off
              o2 == IF o1 < n THEN o1 + 1 ELSE o1
              o3 == IF o2 < n THEN o2 + 1 ELSE o2
          IN  [slots |-> r.slots, off |-> o3]

\* playerMap[id]: the last player of the list with that ID (0: none)
RECURSIVE PlayerMapIndex(_, _, _)
PlayerMapIndex(ps, id, i) ==
    IF i = 0 THEN 0
    ELSE IF ps[i].ID = id THEN i ELSE PlayerMapIndex(ps, id, i - 1)

ComputerName(id) == <<67, 111, 109, 112, 117, 116, 101, 114, 32>> \o Dec(id)

\* the body of the slot loop of applySlotInfoToPlayers for one slot;
\* ps is the function's own players slice, n0 the number of players it
\* was called with (playerMap holds only those)
ApplySlot(ps, n0, slot, version) ==
    LET observerTeam == IF GeqSmall(version, ReforgedVersionThreshold)
                        THEN ObserverTeamReforged ELSE ObserverTeamClassic
        k == PlayerMapIndex(ps, slot.PlayerID, n0)
    IN  IF slot.SlotStatus # SlotUsed THEN ps
        ELSE IF slot.IsComputer
        THEN Append(ps, [ZeroPlayer EXCEPT
                           !.ID = slot.PlayerID,
                           !.Name = ComputerName(slot.PlayerID),
                           !.IsComputer = TRUE,
                           !.Team = slot.Team,
                           !.Color = slot.Color,
                           !.Race = RaceFromFlags(slot.RaceFlags),
                           !.Handicap = slot.Handicap,
                           !.SlotStatus = SlotUsed])
        ELSE IF k # 0
        THEN [ps EXCEPT ![k] =
                [@ EXCEPT !.Team = slot.Team,
                          !.Color = slot.Color,
                          !.Handicap = slot.Handicap,
                          !.SlotStatus = slot.SlotStatus,
                          !.Race = IF @ = RaceUnknown
                                   THEN RaceFromFlags(slot.RaceFlags) ELSE @,
                          !.IsObserver = IF slot.Team = observerTeam
                                         THEN TRUE ELSE @]]
        ELSE ps

\* the players slice of applySlotInfoToPlayers after its loop
RECURSIVE ApplySlots(_, _, _, _)
ApplySlots(ps, n0, ss, version) ==
    IF ss = <<>> THEN ps
    ELSE ApplySlots(ApplySlot(ps, n0, ss[1], version), n0, Tail(ss), version)

\* what the caller's players slice holds after applySlotInfoToPlayers(players,
\* slots, version): the slice header is passed by value, so the caller keeps
\* its length; the players it points to were updated in place
ApplySlotInfoToPlayers(ps, ss, version) ==
    SubSeq(ApplySlots(ps, Len(ps), ss, version), 1, Len(ps))

\* the marker byte alone, without the range checks
IsGameStartMarker(d, off) ==
    /\ ~(off + 4 > DataLen(d))
    /\ At(d, off) = BlockGameStart

\* isValidGameStartRecord
IsValidGameStartRecord(d, off) ==
    /\ ~(off + 4 > DataLen(d))
    /\ At(d, off) = BlockGameStart
    /\ U16(d, off + 1) >= 10 /\ U16(d, off + 1) <= 500
    /\ At(d, off + 3) >= 2 /\ At(d, off + 3) <= 24

-----------------------------------------------------------------------------
(* encoded.go *)

\* (control & (1 << bit)) == 0
BitClear(control, bit) == (control \div (2 ^ bit)) % 2 = 0

\* the inner loop of decodeEncodedString from iteration bit on:
\* [ret, pos, result]; ret = TRUE when the function returned inside the loop
RECURSIVE DecodeGroup(_, _, _, _, _)
DecodeGroup(d, control, bit, pos, result) ==
    IF bit >= 7 \/ pos >= DataLen(d)
    THEN [ret |-> FALSE, pos |-> pos, result |-> result]
    ELSE LET b == At(d, pos)
         IN  IF b = 0
             THEN [ret |-> TRUE, pos |-> pos + 1, result |-> Append(result, 0)]
             ELSE DecodeGroup(d, control, bit + 1, pos + 1,
                              Append(result, IF BitClear(control, bit + 1)
                                             THEN b - 1 ELSE b))

\* the outer loop of decodeEncodedString: [result, pos]
RECURSIVE DecodeLoop(_, _, _)
DecodeLoop(d, pos, result) ==
    IF pos >= DataLen(d) THEN [result |-> result, pos |-> pos]
    ELSE LET control == At(d, pos)
         IN  IF control = 0 THEN [result |-> result, pos |-> pos + 1]
             ELSE LET g == DecodeGroup(d, control, 0, pos + 1, result)
                  IN  IF g.ret THEN [result |-> g.result, pos |-> g.pos]
                      ELSE DecodeLoop(d, g.pos, g.result)

\* the decoded bytes, with the cursor left where the string starts
DecodeEncodedStringInPlace(d, off) ==
    [result |-> DecodeLoop(d, off, <<>>).result, pos |-> off]

\* decodeEncodedString(data, offset): [result, pos]
DecodeEncodedString(d, off) == DecodeLoop(d, off, <<>>)

-----------------------------------------------------------------------------
(* actions.go *)

\* offset after the opcode switch of parseAction for opcode id, o being the
\* offset after the opcode byte; -1 when parseAction returns nil (unknown)
ActionAfter(d, id, o, version) ==
    LET n == DataLen(d)
        fs == IF LtSmall(version, 13) THEN 1 ELSE 2
        units == U16(d, o + 1)
        room == (n - (o + 3)) \div 8
        xy == o + fs + 4 + 8 + 8
        obj1 == IF xy + 4 <= n THEN xy + 4 ELSE xy
        obj2 == IF obj1 + 4 <= n THEN obj1 + 4 ELSE obj1
    IN  CASE id \in {1, 2, 4, 5} -> o
          [] id = 3 -> IF o < n THEN o + 1 ELSE o
          [] id = 6 -> ScanNul(d, o) + 1
          [] id = 7 -> o + 4
          [] id = 16 -> IF o + (12 + fs) - 1 <= n THEN o + (12 + fs) - 1 ELSE o
          [] id = 17 -> IF o + (20 + fs) - 1 <= n THEN xy ELSE o
          [] id = 18 -> IF o + (24 + fs) - 1 <= n THEN obj2 ELSE o
          [] id = 19 -> o + (36 + fs) - 1
          [] id = 20 -> o + (41 + fs) - 1
          [] id \in {22, 23} ->
                IF o + 3 <= n THEN o + 3 + 8 * Min(units, room) ELSE o
          [] id = 24 -> IF o + 2 <= n THEN o + 2 ELSE o
          [] id = 25 -> IF GeqSmall(version, 14) THEN o + 12 ELSE o + 1
          [] id = 26 -> o
          [] id = 27 -> o + 9
          [] id = 28 -> o + 9
          [] id = 29 -> o + 8
          [] id \in {30, 80} -> IF o + 5 <= n THEN o + 5 ELSE o
          [] id = 81 -> IF o + 9 <= n THEN o + 9 ELSE o
          [] id = 96 -> ScanNul(d, o + 8) + 1
          [] id = 97 -> o
          [] id = 98 -> o + 12
          [] id \in {102, 103} -> o
          [] id = 104 -> IF o + 12 <= n THEN o + 12 ELSE o
          [] id \in {105, 106} -> o + 16
          [] id = 117 -> o + 1
          [] OTHER -> IF id >= 32 /\ id <= 50
                      THEN (IF o + 5 <= n THEN o + 5 ELSE o)
                      ELSE -1

\* parseAction: kind "nil" (no action), "panic" (data[startOffset:offset]
\* with offset > cap(data)) or "action"; off is the returned offset
ParseAction(d, cap, off, version) ==
    IF off >= DataLen(d)
    THEN [kind |-> "nil", off |-> off, ActionType |-> 0, start |-> off]
    ELSE LET id == At(d, off)
             e == ActionAfter(d, id, off + 1, version)
         IN  IF e = -1
             THEN [kind |-> "nil", off |-> off + 1, ActionType |-> id, start |-> off]
             ELSE IF e > cap
             THEN [kind |-> "panic", off |-> e, ActionType |-> id, start |-> off]
             ELSE [kind |-> "action", off |-> e, ActionType |-> id, start |-> off]

\* the inner loop of parseCommandData (for offset < actionEnd):
\* [panic, res], res the (PlayerID, Action) pairs appended
RECURSIVE FrameActions(_, _, _, _, _, _)
FrameActions(d, cap, off, actionEnd, version, playerID) ==
    IF off >= actionEnd THEN [panic |-> FALSE, res |-> <<>>]
    ELSE LET a == ParseAction(d, cap, off, version)
         IN  IF a.kind = "panic" THEN [panic |-> TRUE, res |-> <<>>]
             ELSE IF a.kind = "nil" THEN [panic |-> FALSE, res |-> <<>>]
             ELSE LET rest == FrameActions(d, cap, a.off, actionEnd, version, playerID)
                  IN  [panic |-> rest.panic,
                       res |-> <<[PlayerID |-> playerID,
                                  Action |-> [TimestampMs |-> Zero32,
                                              PlayerID |-> playerID,
                                              ActionType |-> a.ActionType,
                                              start |-> a.start,
                                              end |-> a.off]]>> \o rest.res]

\* the outer loop of parseCommandData (for offset < end)
RECURSIVE CommandFrames(_, _, _, _, _)
CommandFrames(d, cap, off, end, version) ==
    IF off >= end \/ off + 3 > DataLen(d) THEN [panic |-> FALSE, res |-> <<>>]
    ELSE LET playerID == At(d, off)
             actionLength == U16(d, off + 1)
             actionEnd == off + 3 + actionLength
             fa == FrameActions(d, cap, off + 3, actionEnd, version, playerID)
         IN  IF fa.panic THEN fa
             ELSE LET rest == CommandFrames(d, cap, actionEnd, end, version)
                  IN  [panic |-> rest.panic, res |-> fa.res \o rest.res]

\* parseCommandData(data, offset, length, version)
ParseCommandData(d, cap, off, length, version) ==
    CommandFrames(d, cap, off, off + length, version)

-----------------------------------------------------------------------------
(* chat.go *)

PlayerNamePrefix == <<80, 108, 97, 121, 101, 114, 32>>  \* "Player "

\* a map in which no ID has an entry
NameOfNone(names, id) == <<>>

\* playerNames[id], "" when the map has no entry
NameOf(names, id) == IF id \in DOMAIN names THEN names[id] ELSE <<>>

\* playerNames[id] = name
SetName(names, id, name) ==
    [x \in DOMAIN names \cup {id} |-> IF x = id THEN name ELSE names[x]]

\* parseChatMessage: [ok, msg, off]; TimestampMs is set by the caller
ParseChatMessage(d, off, names) ==
    IF off + 4 > DataLen(d) THEN [ok |-> FALSE, msg |-> <<>>, off |-> off]
    ELSE
      LET playerID == At(d, off)
          flags == At(d, off + 3)
          o1 == off + 4
          hasMode == flags = ChatFlagNormal /\ o1 + 4 <= DataLen(d)
          msgStart == IF hasMode THEN o1 + 4 ELSE o1
          msgEnd == ScanNul(d, msgStart)
          known == NameOf(names, playerID)
      IN  [ok |-> TRUE,
           msg |-> [TimestampMs |-> Zero32,
                    PlayerID |-> playerID,
                    PlayerName |-> IF known = <<>>
                                   THEN PlayerNamePrefix \o Dec(playerID)
                                   ELSE known,
                    Message |-> Slice(d, msgStart, msgEnd),
                    Mode |-> IF hasMode THEN U32D(d, o1) ELSE Zero32,
                    IsStartup |-> (flags = ChatFlagStartup)],
           off |-> msgEnd + 1]

-----------------------------------------------------------------------------
(* parser.go: ParseStream = parseHeader, decompressBlocks, parseGameData *)

\* a return of ParseStream with an error and no replay
Fail(e) ==
    /\ err' = e
    /\ replay' = NilReplay
    /\ pc' = "done"

\* ParseStream: header, _, err := parseHeader(r)
ParseHeader ==
    /\ pc = "start"
    /\ LET r == ParseHeaderOf(HdrBytes)
       IN  IF r.err # "nil"
           THEN /\ Fail(r.err)
                /\ UNCHANGED <<header, rpos>>
           ELSE /\ header' = r.header
                /\ rpos' = r.n
                /\ pc' = "blocks"
                /\ UNCHANGED <<err, replay>>
    /\ UNCHANGED <<fileVars, blkIdx, data, dataCap, gdVars, encVars, iterVars>>

\* decompressBlocks: one iteration of the block loop
DecompressStep ==
    /\ pc = "blocks"
    /\ MoreBlocks(blkIdx, header.NumCompressedBlocks)
    /\ LET isReforged == IsReforged(header)
           hl == BlockHeaderLen(isReforged)
       IN  IF rpos + hl > ReadableLen
           THEN /\ Fail("Truncated")
                /\ UNCHANGED <<rpos, blkIdx, data>>
           ELSE
             LET blk == file.blocks[blkIdx + 1]
                 compressedSize == U16At(blk.bh, 0)
                 r == DecompressBlock(blk, isReforged)
             IN  IF rpos + hl + compressedSize > ReadableLen
                 THEN /\ Fail("Truncated")
                      /\ UNCHANGED <<rpos, blkIdx, data>>
                 ELSE IF r.err
                 THEN /\ Fail("Decompression")
                      /\ UNCHANGED <<rpos, blkIdx, data>>
                 ELSE /\ data' = BufWrite(data, r.out)
                      /\ rpos' = rpos + hl + compressedSize
                      /\ blkIdx' = blkIdx + 1
                      /\ UNCHANGED <<pc, err, replay>>
    /\ UNCHANGED <<fileVars, header, dataCap, gdVars, encVars, iterVars>>

CapSlack == 8

\* cap(result.Bytes()): the buffer's growth policy decides how much room
\* follows the bytes written; an empty buffer has none
CapChoices(d) ==
    IF DataLen(d) = 0 THEN {0} ELSE {DataLen(d), DataLen(d) + CapSlack}

\* decompressBlocks returns result.Bytes(); parseGameData starts
DecompressReturn ==
    /\ pc = "blocks"
    /\ ~MoreBlocks(blkIdx, header.NumCompressedBlocks)
    /\ dataCap' \in CapChoices(data)
    /\ pc' = "gd_host"
    /\ UNCHANGED <<fileVars, rpos, header, err, blkIdx, data, gdVars, replay, encVars, iterVars>>

\* parseGameData: skip 4 bytes, parse the host player record
GdHost ==
    /\ pc = "gd_host"
    /\ LET o0 == IF 0 + 4 <= DataLen(data) THEN 4 ELSE 0
           r == ParsePlayerRecord(data, o0, TRUE)
       IN  IF r.ok
           THEN /\ players' = Append(players, [r.p EXCEPT !.IsHost = TRUE])
                /\ playerNames' = SetName(playerNames, r.p.ID, r.p.Name)
                /\ hostName' = r.p.Name
                /\ offset' = r.off
           ELSE /\ offset' = o0
                /\ UNCHANGED <<players, playerNames, hostName>>
    /\ pc' = "gd_name"
    /\ UNCHANGED <<fileVars, rpos, header, err, blkIdx, data, dataCap, replay,
                   chatMessages, actions, currentTimeMs, slots, gameName,
                   encodedData, encVars, iterVars>>

\* parseGameData: game name, separator, encoded settings, player count /
\* game type / language
GdGameName ==
    /\ pc = "gd_name"
    /\ LET n == DataLen(data)
           nameEnd == ScanNul(data, offset)
           o1 == nameEnd + 1
           o2 == IF o1 < n /\ At(data, o1) = 0 THEN o1 + 1 ELSE o1
           dec == DecodeEncodedString(data, o2)
           o3 == IF dec.pos + 12 <= n THEN dec.pos + 12 ELSE dec.pos
       IN  IF offset > dataCap
           THEN \* data[gameNameStart:offset]: slice bounds out of range
                /\ pc' = "panic"
                /\ UNCHANGED <<gameName, encodedData, offset>>
           ELSE /\ gameName' = Slice(data, offset, nameEnd)
                /\ encodedData' = dec.result
                /\ offset' = o3
                /\ pc' = "gd_players"
    /\ UNCHANGED <<fileVars, rpos, header, err, blkIdx, data, dataCap, replay,
                   players, playerNames, chatMessages, actions, currentTimeMs,
                   slots, hostName, encVars, iterVars>>

\* parseGameData: one iteration of the additional-players loop that
\* finds a player
GdPlayer ==
    /\ pc = "gd_players"
    /\ offset < DataLen(data)
    /\ LET r == ParsePlayerRecord(data, offset, FALSE)
       IN  /\ r.ok
           /\ players' = Append(players, r.p)
           /\ playerNames' = SetName(playerNames, r.p.ID, r.p.Name)
           /\ offset' = r.off
    /\ UNCHANGED <<fileVars, rpos, header, err, blkIdx, data, dataCap, replay, pc,
                   chatMessages, actions, currentTimeMs, slots, gameName,
                   hostName, encodedData, encVars, iterVars>>

\* the search loop: for searchOffset < len(data)-4 { ... searchOffset++ }
RECURSIVE SearchGameStart(_, _)
SearchGameStart(d, so) ==
    IF so < DataLen(d) - 4
    THEN IF At(d, so) = BlockGameStart /\ IsValidGameStartRecord(d, so)
         THEN so
         ELSE SearchGameStart(d, so + 1)
    ELSE so

\* offset after the game-start search of parseGameData
GameStartOffset(d, off) ==
    IF off < DataLen(d) /\ ~IsValidGameStartRecord(d, off)
    THEN LET so == SearchGameStart(d, off)
         IN  IF so < DataLen(d) /\ IsValidGameStartRecord(d, so) THEN so ELSE off
    ELSE off

\* parseGameData: the additional-players loop ends, at the end of the
\* data or at a byte that starts no additional-player record
GdPlayersEnd ==
    /\ pc = "gd_players"
    /\ \/ offset >= DataLen(data)
       \/ ~ParsePlayerRecord(data, offset, FALSE).ok
    /\ pc' = "gd_search"
    /\ UNCHANGED <<fileVars, rpos, header, err, blkIdx, data, dataCap, replay,
                   gdVars, encVars, iterVars>>

\* parseGameData: the search for the game-start record
GdSearch ==
    /\ pc = "gd_search"
    /\ offset' = GameStartOffset(data, offset)
    /\ pc' = "gd_start"
    /\ UNCHANGED <<fileVars, rpos, header, err, blkIdx, data, dataCap, replay,
                   players, playerNames, chatMessages, actions, currentTimeMs,
                   slots, gameName, hostName, encodedData, encVars, iterVars>>

\* parseGameData: parseGameStartRecord, applySlotInfoToPlayers
GdGameStart ==
    /\ pc = "gd_start"
    /\ LET gs == ParseGameStartRecord(data, offset, header.Version)
       IN  IF offset < DataLen(data) /\ At(data, offset) = BlockGameStart
           THEN /\ slots' = gs.slots
                /\ offset' = gs.off
                /\ players' = ApplySlotInfoToPlayers(players, gs.slots, header.Version)
           ELSE UNCHANGED <<offset, slots, players>>
    /\ pc' = "events"
    /\ UNCHANGED <<fileVars, rpos, header, err, blkIdx, data, dataCap, replay,
                   playerNames, chatMessages, actions, currentTimeMs, gameName,
                   hostName, encodedData, encVars, iterVars>>

-----------------------------------------------------------------------------
(* parser.go: the event loop of parseGameData *)

\* the loop is at an event whose block ID is in ids (blockID := data[offset])
AtEvent(ids) ==
    /\ pc = "events"
    /\ offset < DataLen(data)
    /\ At(data, offset) \in ids

KnownBlockIDs ==
    {BlockLeaveGame, BlockFirstStart, BlockSecondStart, BlockThirdStart,
     BlockTimeSlot, BlockTimeSlotOld, BlockChat, BlockChecksum,
     BlockForcedEnd, BlockOpaque23}

\* for _, player := range players { if player.ID == id { ...; break } }:
\* index of the first player with that ID (0: none)
RECURSIVE FirstIndex(_, _, _)
FirstIndex(ps, id, i) ==
    IF i > Len(ps) THEN 0
    ELSE IF ps[i].ID = id THEN i ELSE FirstIndex(ps, id, i + 1)

\* leaveResult := LeaveResult(result): LeaveResult is a uint8
LeaveResultOf(result) == LowByte(result)

\* what the leave-game block stores in the player
StampLeave(ps, id, result) ==
    LET k == FirstIndex(ps, id, 1)
    IN  IF k = 0 THEN ps
        ELSE [ps EXCEPT ![k] = [@ EXCEPT !.LeaveResult = LeaveResultOf(result),
                                         !.LeaveTimeMs = ClockPtr]]

\* *player.LeaveTimeMs: the pointer is to the parser's clock variable
Deref(ptr, clock) == IF ptr = ClockPtr THEN clock ELSE Zero32

\* player.ActionCount++ for the first player with ca.PlayerID, for each ca
RECURSIVE CountActions(_, _)
CountActions(ps, cas) ==
    IF cas = <<>> THEN ps
    ELSE LET k == FirstIndex(ps, cas[1].PlayerID, 1)
             ps1 == IF k # 0
                    THEN [ps EXCEPT ![k] = [@ EXCEPT !.ActionCount = @ + 1]]
                    ELSE ps
         IN  CountActions(ps1, Tail(cas))

\* ca.Action.TimestampMs = currentTimeMs; actions = append(actions, ca.Action)
Stamped(cas, clock) ==
    [i \in 1..Len(cas) |-> [cas[i].Action EXCEPT !.TimestampMs = clock]]

EvLeaveGame ==
    /\ AtEvent({BlockLeaveGame})
    /\ LET o == offset + 1
       IN  IF o + 13 <= DataLen(data)
           THEN /\ players' = StampLeave(players, At(data, o + 4), U32D(data, o + 5))
                /\ offset' = o + 13
           ELSE /\ offset' = o
                /\ UNCHANGED players
    /\ UNCHANGED <<fileVars, rpos, header, err, blkIdx, data, dataCap, replay, pc,
                   playerNames, chatMessages, actions, currentTimeMs, slots,
                   gameName, hostName, encodedData, encVars, iterVars>>

EvStartBlock ==
    /\ AtEvent({BlockFirstStart, BlockSecondStart, BlockThirdStart})
    /\ offset' = offset + 1 + 4
    /\ UNCHANGED <<fileVars, rpos, header, err, blkIdx, data, dataCap, replay, pc,
                   players, playerNames, chatMessages, actions, currentTimeMs,
                   slots, gameName, hostName, encodedData, encVars, iterVars>>

EvTimeSlot ==
    /\ AtEvent({BlockTimeSlot, BlockTimeSlotOld})
    /\ LET o == offset + 1
           numBytes == U16(data, o)
           timeIncrement == U16(data, o + 2)
           clock == AddU16(currentTimeMs, timeIncrement)
           cmdLength == numBytes - 2
           cmd == ParseCommandData(data, dataCap, o + 4, cmdLength, header.Version)
       IN  IF o + 4 > DataLen(data)
           THEN /\ offset' = o
                /\ UNCHANGED <<currentTimeMs, actions, players, pc>>
           ELSE IF numBytes <= 2
           THEN /\ currentTimeMs' = clock
                /\ offset' = o + 4
                /\ UNCHANGED <<actions, players, pc>>
           ELSE IF cmd.panic
           THEN \* parseAction: slice bounds out of range
                /\ currentTimeMs' = clock
                /\ pc' = "panic"
                /\ offset' = o + 4
                /\ UNCHANGED <<actions, players>>
           ELSE /\ currentTimeMs' = clock
                /\ actions' = actions \o Stamped(cmd.res, clock)
                /\ players' = CountActions(players, cmd.res)
                /\ offset' = o + 4 + cmdLength
                /\ UNCHANGED pc
    /\ UNCHANGED <<fileVars, rpos, header, err, blkIdx, data, dataCap, replay,
                   playerNames, chatMessages, slots, gameName, hostName,
                   encodedData, encVars, iterVars>>

EvChat ==
    /\ AtEvent({BlockChat})
    /\ LET r == ParseChatMessage(data, offset + 1, playerNames)
       IN  /\ chatMessages' = IF r.ok
                              THEN Append(chatMessages,
                                          [r.msg EXCEPT !.TimestampMs = currentTimeMs])
                              ELSE chatMessages
           /\ offset' = r.off
    /\ UNCHANGED <<fileVars, rpos, header, err, blkIdx, data, dataCap, replay, pc,
                   players, playerNames, actions, currentTimeMs, slots,
                   gameName, hostName, encodedData, encVars, iterVars>>

\* BlockChecksum and block 0x23: 1 byte length + data
EvChecksum ==
    /\ AtEvent({BlockChecksum, BlockOpaque23})
    /\ LET o == offset + 1
       IN  offset' = IF o < DataLen(data) THEN o + 1 + At(data, o) ELSE o
    /\ UNCHANGED <<fileVars, rpos, header, err, blkIdx, data, dataCap, replay, pc,
                   players, playerNames, chatMessages, actions, currentTimeMs,
                   slots, gameName, hostName, encodedData, encVars, iterVars>>

EvForcedEnd ==
    /\ AtEvent({BlockForcedEnd})
    /\ offset' = offset + 1 + 8
    /\ UNCHANGED <<fileVars, rpos, header, err, blkIdx, data, dataCap, replay, pc,
                   players, playerNames, chatMessages, actions, currentTimeMs,
                   slots, gameName, hostName, encodedData, encVars, iterVars>>

\* default: if !p.Strict { continue }; break -- the break leaves the
\* switch statement, and the loop goes on to its next iteration
UnknownBlock(isStrict) ==
    IF ~isStrict THEN [pc |-> "events", err |-> "nil"]
    ELSE [pc |-> "events", err |-> "nil"]

EvUnknown ==
    /\ AtEvent(0..255 \ KnownBlockIDs)
    /\ offset' = offset + 1
    /\ pc' = UnknownBlock(strict).pc
    /\ err' = UnknownBlock(strict).err
    /\ replay' = IF UnknownBlock(strict).err = "nil" THEN replay ELSE NilReplay
    /\ UNCHANGED <<fileVars, rpos, header, blkIdx, data, dataCap,
                   players, playerNames, chatMessages, actions, currentTimeMs,
                   slots, gameName, hostName, encodedData, encVars, iterVars>>

\* actions per second instead of per minute
APMPerSecond(count, durationMs) == [num |-> count, den |-> durationMs, scale |-> 1000]

\* float64(player.ActionCount) / (float64(header.DurationMs) / 60000.0),
\* kept as the exact quotient num / (den / scale)
APMOf(count, durationMs) == [num |-> count, den |-> durationMs, scale |-> 60000]

\* durationMinutes > 0
DurationPositive(durationMs) == durationMs # Zero32

\* the end of parseGameData: APM of each player, the returned W3GReplay
GdReturn ==
    /\ pc = "events"
    /\ offset >= DataLen(data)
    /\ players' = [i \in 1..Len(players) |->
                     IF DurationPositive(header.DurationMs)
                     THEN [players[i] EXCEPT
                             !.APM = APMOf(players[i].ActionCount, header.DurationMs)]
                     ELSE players[i]]
    /\ replay' = [ok |-> TRUE, Header |-> header, GameName |-> gameName,
                  HostName |-> hostName, Players |-> players',
                  ChatMessages |-> chatMessages, Actions |-> actions]
    /\ err' = "nil"
    /\ pc' = "done"
    /\ UNCHANGED <<fileVars, rpos, header, blkIdx, data, dataCap, offset,
                   playerNames, chatMessages, actions, currentTimeMs, slots,
                   gameName, hostName, encodedData, encVars, iterVars>>

-----------------------------------------------------------------------------
(* Input files *)

MaxBlocks == 2      \* compressed blocks of a file of the block family
MaxEvents == 3      \* event blocks of a payload of the event family
WrapReps == 65537   \* run of maximal time slots of the long payload

RECURSIVE Flat(_)
Flat(ss) == IF ss = <<>> THEN <<>> ELSE ss[1] \o Flat(Tail(ss))

SeqsUpTo(S, n) == UNION {[1..k -> S] : k \in 0..n}

\* base header and the two sub-header layouts
MkBase(magic, hv, nblocks) ==
    magic \o LE32(U32(0, 68)) \o LE32(Zero32) \o LE32(hv) \o LE32(Zero32)
          \o LE32(U32(0, nblocks))
MkSubV0(version, flags, duration) ==
    LE16(0) \o LE16(version) \o LE16(6059) \o LE16(flags) \o LE32(duration)
            \o LE32(Zero32)
MkSubV1(gameId, version, flags, duration) ==
    gameId \o LE32(version) \o LE16(6059) \o LE16(flags) \o LE32(duration)
           \o LE32(Zero32)

Magics ==
    {MagicString, [MagicString EXCEPT ![28] = 1], [MagicString EXCEPT ![1] = 119]}
Variants == {U32(0, 0), U32(0, 1), U32(0, 2), U32(1, 0), U32(0, 256), U32(1, 1)}
Durations == {Zero32, U32(0, 60000), U32(1, 54464)}   \* 0, 1 and 2 minutes

HdrV1(magic, hv, nblocks, gameId, version, duration) ==
    MkBase(magic, hv, nblocks) \o MkSubV1(gameId, version, 32768, duration)
HdrV0(magic, nblocks, duration) ==
    MkBase(magic, U32(0, 0), nblocks) \o MkSubV0(6, 0, duration)

HdrClassic(nblocks, duration) ==
    HdrV1(MagicString, U32(0, 1), nblocks, GameIDTFT, U32(0, 26), duration)
HdrReforged(nblocks, duration) ==
    HdrV1(MagicString, U32(0, 1), nblocks, GameIDReforged, U32(0, 10032), duration)

\* files of the header family: no blocks
HeaderFiles ==
    {[hdr |-> IF hv = U32(0, 0) THEN HdrV0(m, 0, Zero32)
              ELSE HdrV1(m, hv, 0, GameIDTFT, U32(0, 26), Zero32),
      blocks |-> <<>>] : m \in Magics, hv \in Variants}

\* one compressed block: its header bytes bh, the length of its compressed
\* bytes, and what flate and zlib make of those bytes
MkBlock(isReforged, size, fl, zl) ==
    [bh |-> IF isReforged
            THEN LE16(size) \o <<0, 0>> \o LE32(Zero32) \o LE32(Zero32)
            ELSE LE16(size) \o LE16(0) \o LE32(Zero32),
     size |-> size, deflate |-> fl, zlib |-> zl]

Bytes(x) == Payload(x, 0, <<>>)
Skip4 == <<16, 1, 0, 0>>

\* a zlib stream read as raw deflate is corrupt; a raw deflate stream has
\* no zlib header
NotDeflate == [out |-> NoData, end |-> "Corrupt"]
NotZlib == [hdr |-> "ErrHeader", out |-> NoData, end |-> "Corrupt"]
ZlibOf(out, end) == [hdr |-> "ok", out |-> out, end |-> end]

BlockKinds(isReforged) ==
    { MkBlock(isReforged, 6, NotDeflate, ZlibOf(Bytes(Skip4), "EOF")),
      MkBlock(isReforged, 5, NotDeflate, ZlibOf(Bytes(Skip4), "UnexpectedEOF")),
      MkBlock(isReforged, 5, NotDeflate, ZlibOf(Bytes(Skip4), "Corrupt")),
      MkBlock(isReforged, 3, NotDeflate, ZlibOf(NoData, "UnexpectedEOF")),
      MkBlock(isReforged, 4, NotDeflate, ZlibOf(NoData, "Corrupt")),
      MkBlock(isReforged, 4, [out |-> Bytes(Skip4), end |-> "EOF"], NotZlib),
      MkBlock(isReforged, 3, [out |-> Bytes(Skip4), end |-> "UnexpectedEOF"], NotZlib),
      MkBlock(isReforged, 2, NotDeflate, NotZlib),
      MkBlock(isReforged, 7, NotDeflate, ZlibOf(Bytes(<<1, 2>>), "EOF")),
      MkBlock(isReforged, 0, [out |-> NoData, end |-> "UnexpectedEOF"],
              [hdr |-> "UnexpectedEOF", out |-> NoData, end |-> "UnexpectedEOF"]) }

BlockFilesOf(ref) ==
    {[hdr |-> IF ref THEN HdrReforged(Len(bs), Zero32) ELSE HdrClassic(Len(bs), Zero32),
      blocks |-> bs] : bs \in SeqsUpTo(BlockKinds(ref), MaxBlocks) \ {<<>>}}

\* Reforged by version only (W3XP, version 29) and by identifier only
\* (PX3W, version 28): one block each
MixedFiles ==
    {[hdr |-> HdrV1(MagicString, U32(0, 1), 1, h[1], U32(0, h[2]), Zero32),
      blocks |-> <<b>>] :
        h \in {<<GameIDTFT, 29>>, <<GameIDReforged, 28>>}, b \in BlockKinds(TRUE)}

BlockFiles == BlockFilesOf(FALSE) \cup BlockFilesOf(TRUE) \cup MixedFiles

\* pieces of a payload
HostRec(id, name) == <<RecordHost, id>> \o name \o <<0, 1, 0>>
AddRec(id, name) == <<RecordAdditionalPlayer, id>> \o name \o <<0, 1, 0>>
GameNameRec == <<103, 0, 0>>     \* "g", NUL, separator NUL
SettingsRec == <<3, 98, 0>>
CountsRec == Rep(0, 12)
SlotRec(pid, status, computer, team, color, race) ==
    <<pid, 100, status, computer, team, color, race, 1, 100>>
GameStartRec(ss) ==
    <<BlockGameStart>> \o LE16(Len(Flat(ss)) + 7) \o <<Len(ss)>> \o Flat(ss)
                       \o LE32(Zero32) \o <<0, 2>>

HumanSlots == <<SlotRec(1, SlotUsed, 0, 0, 0, 1), SlotRec(2, SlotUsed, 0, 1, 1, 2)>>
ComputerSlots ==
    <<SlotRec(1, SlotUsed, 0, 0, 0, 1), SlotRec(2, SlotUsed, 0, 1, 1, 2),
      SlotRec(0, SlotUsed, 1, 1, 2, 8), SlotRec(0, 0, 0, 0, 3, 32)>>
SlotTables == {HumanSlots, ComputerSlots}

Preamble(ss) ==
    Skip4 \o HostRec(1, <<97, 108>>) \o GameNameRec \o SettingsRec \o CountsRec
          \o AddRec(2, <<98, 111>>) \o GameStartRec(ss)

\* event blocks
LeaveBlk(pid, result) ==
    <<BlockLeaveGame>> \o LE32(U32(0, 1)) \o <<pid>> \o LE32(U32(0, result))
                       \o LE32(Zero32)
Frame(pid, acts) == <<pid>> \o LE16(Len(acts)) \o acts
TimeSlotBlk(id, inc, frames) == <<id>> \o LE16(Len(frames) + 2) \o LE16(inc) \o frames
ChatBlk(pid, msg) ==
    <<BlockChat, pid>> \o LE16(Len(msg) + 6) \o <<ChatFlagNormal>> \o LE32(Zero32)
                       \o msg \o <<0>>

ActPause == <<1>>
ActSubgroup == <<25>> \o Rep(0, 12)
ActPreSub == <<26>>
ActSync == <<27>> \o Rep(0, 9)

EventBlocks ==
    { LeaveBlk(1, LeaveResultWon),
      TimeSlotBlk(BlockTimeSlot, 60000, Frame(1, ActPause)),
      TimeSlotBlk(BlockTimeSlotOld, 100, Frame(2, ActSync \o ActPause)),
      TimeSlotBlk(BlockTimeSlot, 0, Frame(1, ActPreSub \o ActSubgroup) \o Frame(9, ActPause)),
      TimeSlotBlk(BlockTimeSlot, 250, Frame(2, <<7>>)),
      FillerBlock,
      ChatBlk(2, <<104, 105>>),
      <<BlockFirstStart, 1, 0, 0, 0>>,
      <<BlockChecksum, 4, 1, 2, 3, 4>>,
      <<BlockForcedEnd, 0, 0, 0, 0, 10, 0, 0, 0>>,
      <<171>> }

\* every event sequence after the plain preamble; every slot table with
\* the short sequences
EventPayloads(ss, n) == {Preamble(ss) \o Flat(es) : es \in SeqsUpTo(EventBlocks, n)}

\* a file whose single block inflates to the payload
PayloadFile(hdr, isReforged, payload) ==
    [hdr |-> hdr,
     blocks |-> <<MkBlock(isReforged, 9, NotDeflate, ZlibOf(payload, "EOF"))>>]

EventFiles ==
    {PayloadFile(HdrClassic(1, U32(0, 60000)), FALSE, Bytes(pl)) :
        pl \in EventPayloads(HumanSlots, MaxEvents)}
      \cup UNION {{PayloadFile(HdrClassic(1, dur), FALSE, Bytes(pl)) :
                     pl \in EventPayloads(ss, 1), dur \in Durations} :
                  ss \in SlotTables}

\* a host record with ladder data: runtime and race flags
HostRecLadder(id, name, raceFlags) ==
    <<RecordHost, id>> \o name \o <<0, 8>> \o LE32(U32(0, 5000))
                      \o LE32(U32(0, raceFlags))

\* host records: custom game, ladder game, empty name, the ID of the
\* additional player
HostRecs ==
    {HostRec(1, <<97, 108>>), HostRecLadder(1, <<97, 108>>, RaceOrc),
     HostRec(1, <<>>), HostRec(2, <<97, 108>>)}

\* the preamble with a given host record, the bytes gap between the player
\* list and what follows it (rest)
PreambleOf(host, gap, rest) ==
    Skip4 \o host \o GameNameRec \o SettingsRec \o CountsRec
          \o AddRec(2, <<98, 111>>) \o gap \o rest

\* slot tables with handicaps other than 100: observer teams; a slot that
\* is not Used; two Used slots with the same player ID
ProbeSlotTables ==
    {HumanSlots,
     <<<<1, 100, SlotUsed, 0, 12, 4, 1, 1, 90>>, <<2, 100, SlotUsed, 0, 24, 5, 8, 1, 80>>>>,
     <<<<1, 100, SlotUsed, 0, 0, 4, 1, 1, 90>>, <<2, 100, 1, 0, 12, 5, 8, 1, 80>>>>,
     <<<<1, 100, SlotUsed, 0, 12, 4, 1, 1, 90>>, <<1, 100, SlotUsed, 0, 0, 6, 4, 1, 70>>,
       <<2, 100, SlotUsed, 0, 24, 5, 8, 1, 80>>>>}

\* event blocks: an action that skips 16 bytes unchecked (0x69), an opcode
\* the action decoder does not know (0xFE) in a first command frame, chat
\* at startup, chat with a mode, chat with other flags
ProbeBlocks ==
    { TimeSlotBlk(BlockTimeSlot, 250, Frame(2, <<105>>)),
      TimeSlotBlk(BlockTimeSlot, 10,
                  Frame(1, ActPause \o <<254, 1, 1>>) \o Frame(2, ActPause)),
      TimeSlotBlk(BlockTimeSlotOld, 10, Frame(1, <<254>>) \o Frame(2, <<105>>)),
      <<BlockChat, 7>> \o LE16(3) \o <<ChatFlagStartup, 121, 111, 0>>,
      <<BlockChat, 1>> \o LE16(7) \o <<ChatFlagNormal>> \o LE32(U32(0, 1))
                      \o <<103, 103, 0>>,
      <<BlockChat, 2>> \o LE16(2) \o <<48, 104, 0>> }

\* payloads with bytes between the player list and the game-start record:
\* records that are no valid candidate, a valid record, none, a valid
\* candidate in the last four bytes, a candidate cut short
SearchFiles ==
    {PayloadFile(HdrClassic(1, Zero32), FALSE,
                 Bytes(PreambleOf(HostRec(1, <<97, 108>>), gap, rest))) :
        gap \in {<<1, 2>>, <<25, 5, 0, 2, 9>>, <<25, 20, 0, 1>>,
                 <<9, 25, 20, 0, 30, 7>>},
        rest \in {GameStartRec(HumanSlots), GameStartRec(HumanSlots) \o <<34, 0>>,
                  <<>>, <<25, 10, 0, 2>>, <<25, 10, 0, 2, 25, 10, 0, 2>>,
                  <<25, 10, 0>>}}

\* encoded settings of two groups: a control byte and seven bytes, a
\* control byte, two bytes and the closing NUL
LongSettingsRec == <<3, 98, 99, 100, 101, 102, 103, 104, 255, 105, 106, 0>>

\* payloads with the long settings: whole, with events after the game
\* start; cut inside the second group; cut right after the first group
SettingsFiles ==
    LET pre == Skip4 \o HostRec(1, <<97, 108>>) \o GameNameRec
    IN  {PayloadFile(HdrClassic(1, U32(0, 60000)), FALSE, Bytes(pl)) :
           pl \in {pre \o LongSettingsRec \o CountsRec \o AddRec(2, <<98, 111>>)
                       \o GameStartRec(HumanSlots)
                       \o TimeSlotBlk(BlockTimeSlot, 10,
                                      Frame(1, ActPause \o ActSync) \o Frame(2, ActPause))
                       \o ChatBlk(2, <<104, 105>>),
                   pre \o SubSeq(LongSettingsRec, 1, 10),
                   pre \o SubSeq(LongSettingsRec, 1, 8)}}

\* a command frame of declared length 1 whose only byte is the opcode of
\* a length-checked ability action (0x10), with a second frame, a chat
\* block and a checksum block after it
OverrunFile ==
    PayloadFile(HdrClassic(1, U32(0, 60000)), FALSE,
                Bytes(Preamble(HumanSlots)
                        \o TimeSlotBlk(BlockTimeSlot, 10,
                                       Frame(1, <<16>>) \o Frame(2, ActPause))
                        \o ChatBlk(2, <<104, 105>>)
                        \o <<BlockChecksum, 4, 1, 2, 3, 4>>))

ProbeFiles ==
    {PayloadFile(HdrClassic(1, U32(0, 60000)), FALSE,
                 Bytes(Preamble(HumanSlots) \o Flat(es))) :
        es \in SeqsUpTo(ProbeBlocks, MaxEvents - 1)}
      \cup {PayloadFile(IF ref THEN HdrReforged(1, Zero32) ELSE HdrClassic(1, Zero32),
                        ref,
                        Bytes(PreambleOf(h, <<>>, GameStartRec(ss)) \o Flat(es))) :
               h \in HostRecs, ss \in ProbeSlotTables,
               es \in SeqsUpTo(ProbeBlocks, MaxEvents - 2), ref \in BOOLEAN}
      \cup SearchFiles \cup SettingsFiles \cup {OverrunFile}

\* a payload whose clock passes 2^32 - 1: WrapReps time slots of 65535 ms
\* between two time slots that carry an action
WrapFile ==
    PayloadFile(HdrClassic(1, U32(0, 60000)), FALSE,
                Payload(Preamble(HumanSlots)
                          \o TimeSlotBlk(BlockTimeSlot, 65535, Frame(1, ActPause)),
                        WrapReps,
                        TimeSlotBlk(BlockTimeSlot, 0, Frame(2, ActPause))))

Inputs ==
    {[file |-> f, strict |-> FALSE] : f \in HeaderFiles \cup BlockFiles \cup ProbeFiles \cup {WrapFile}}
      \cup {[file |-> f, strict |-> st] : f \in EventFiles, st \in BOOLEAN}

\* prefix lengths at which a file is cut
HeaderCuts == {0, 27, 47, 48, 63, 64, 67}

RECURSIVE BlockCuts(_, _)
BlockCuts(bs, pos) ==
    IF bs = <<>> THEN {}
    ELSE LET hl == Len(bs[1].bh)
             end == pos + hl + bs[1].size
         IN  {pos, pos + hl - 1, pos + hl, end - 1} \cup BlockCuts(Tail(bs), end)

Cuts(f) ==
    {c \in HeaderCuts \cup BlockCuts(f.blocks, Len(f.hdr)) : c < TotalLen(f)}

-----------------------------------------------------------------------------
(* The parser on its inputs *)

Locals(rp, hd, er, bi, d, dc, of, ps, pn, cm, ac, ct, sl, gn, hn, ed, rep) ==
    /\ rp = 0 /\ hd = NilHeader /\ er = "nil" /\ bi = 0 /\ d = NoData /\ dc = 0
    /\ of = 0 /\ ps = <<>> /\ pn = <<>> /\ cm = <<>> /\ ac = <<>> /\ ct = Zero32
    /\ sl = <<>> /\ gn = <<>> /\ hn = <<>> /\ ed = <<>> /\ rep = NilReplay

\* IterActions was not called
IterIdle ==
    /\ wpc = "idle" /\ sendIdx = 0 /\ actionChClosed = FALSE /\ errCh = <<>>
    /\ errChClosed = FALSE /\ cpc = "idle" /\ received = <<>> /\ gotErr = "none"

\* NewParser, then ParseStream on the whole file
Init ==
    /\ \E in \in Inputs : file = in.file /\ strict = in.strict
    /\ flen = TotalLen(file)
    /\ accepted = FALSE
    /\ pc = "start"
    /\ Locals(rpos, header, err, blkIdx, data, dataCap, offset, players,
              playerNames, chatMessages, actions, currentTimeMs, slots,
              gameName, hostName, encodedData, replay)
    /\ encS = <<>>
    /\ encOut = [result |-> <<>>, pos |-> 0]
    /\ IterIdle

\* ParseStream called again, on the first flen' bytes of the same file
ParsePrefix ==
    /\ pc = "done"
    /\ flen = TotalLen(file)
    /\ flen' \in Cuts(file)
    /\ accepted' = (err = "nil" /\ replay.ok)
    /\ pc' = "start"
    /\ Locals(rpos', header', err', blkIdx', data', dataCap', offset', players',
              playerNames', chatMessages', actions', currentTimeMs', slots',
              gameName', hostName', encodedData', replay')
    /\ UNCHANGED <<strict, file, encVars, iterVars>>

Next ==
    \/ ParseHeader
    \/ DecompressStep
    \/ DecompressReturn
    \/ GdHost
    \/ GdGameName
    \/ GdPlayer
    \/ GdPlayersEnd
    \/ GdSearch
    \/ GdGameStart
    \/ EvLeaveGame
    \/ EvStartBlock
    \/ EvTimeSlot
    \/ EvChat
    \/ EvChecksum
    \/ EvForcedEnd
    \/ EvUnknown
    \/ GdReturn
    \/ ParsePrefix

Spec == Init /\ [][Next]_vars

-----------------------------------------------------------------------------
(* The encoded-string decoder on stuffed strings *)

MaxStrLen == 8      \* longest plain string that is stuffed and decoded

EncBytes == {1, 2, 255}

\* the stuffing scheme: a control byte, then up to seven data bytes; an
\* even byte is stored incremented with its control bit clear, an odd byte
\* verbatim with its control bit set; bit 0 of the control byte is set
RECURSIVE ControlBits(_, _)
ControlBits(g, j) ==
    IF j > Len(g) THEN 1
    ELSE (IF g[j] % 2 = 1 THEN 2 ^ j ELSE 0) + ControlBits(g, j + 1)

EncodeGroup(g) ==
    <<ControlBits(g, 1)>> \o [j \in 1..Len(g) |-> IF g[j] % 2 = 0 THEN g[j] + 1 ELSE g[j]]

RECURSIVE EncodeGroups(_)
EncodeGroups(s) ==
    IF s = <<>> THEN <<>>
    ELSE EncodeGroup(SubSeq(s, 1, Min(7, Len(s))))
           \o EncodeGroups(SubSeq(s, Min(7, Len(s)) + 1, Len(s)))

\* the groups, closed by a NUL
Encode(s) == EncodeGroups(s) \o <<0>>

InitEnc ==
    /\ encS \in SeqsUpTo(EncBytes, MaxStrLen)
    /\ encOut = [result |-> <<>>, pos |-> 0]
    /\ IterIdle
    /\ pc = "enc"
    /\ file = [hdr |-> <<>>, blocks |-> <<>>]
    /\ strict = FALSE
    /\ flen = 0
    /\ accepted = FALSE
    /\ Locals(rpos, header, err, blkIdx, data, dataCap, offset, players,
              playerNames, chatMessages, actions, currentTimeMs, slots,
              gameName, hostName, encodedData, replay)

\* decodeEncodedString(Encode(encS), 0)
EncDecode ==
    /\ pc = "enc"
    /\ encOut' = DecodeEncodedString(Bytes(Encode(encS)), 0)
    /\ pc' = "enc_done"
    /\ UNCHANGED <<fileVars, rpos, header, err, blkIdx, data, dataCap, gdVars,
                   replay, encS, iterVars>>

NextEnc == EncDecode

SpecEnc == InitEnc /\ [][NextEnc]_vars

-----------------------------------------------------------------------------
(* The action decoder on single actions *)

MaxActBytes == 44   \* most bytes that follow the opcode byte

AbilityOpcodes == {16, 17, 18, 19, 20}
ActVersions == {U32(0, 12), U32(0, 13), U32(0, 26), U32(0, 10032)}

\* a payload that is one opcode byte and up to MaxActBytes bytes after it
InitAct ==
    /\ \E op \in AbilityOpcodes, k \in 0..MaxActBytes :
         data = Bytes(<<op>> \o Rep(0, k))
    /\ dataCap \in CapChoices(data)
    /\ \E v \in ActVersions : header = [NilHeader EXCEPT !.ok = TRUE, !.Version = v]
    /\ pc = "act"
    /\ file = [hdr |-> <<>>, blocks |-> <<>>]
    /\ strict = FALSE
    /\ flen = 0
    /\ accepted = FALSE
    /\ rpos = 0 /\ err = "nil" /\ blkIdx = 0 /\ offset = 0 /\ players = <<>>
    /\ playerNames = <<>> /\ chatMessages = <<>> /\ actions = <<>>
    /\ currentTimeMs = Zero32 /\ slots = <<>> /\ gameName = <<>>
    /\ hostName = <<>> /\ encodedData = <<>> /\ replay = NilReplay
    /\ encS = <<>>
    /\ encOut = [result |-> <<>>, pos |-> 0]
    /\ IterIdle

\* action, newOffset := parseAction(data, 0, version)
ActParse ==
    /\ pc = "act"
    /\ LET a == ParseAction(data, dataCap, offset, header.Version)
       IN  /\ pc' = IF a.kind = "panic" THEN "act_panic" ELSE "act_done"
           /\ offset' = IF a.kind = "panic" THEN offset ELSE a.off
           /\ actions' = IF a.kind = "action"
                         THEN <<[TimestampMs |-> Zero32, PlayerID |-> 0,
                                 ActionType |-> a.ActionType,
                                 start |-> a.start, end |-> a.off]>>
                         ELSE <<>>
    /\ UNCHANGED <<fileVars, rpos, header, err, blkIdx, data, dataCap, replay,
                   players, playerNames, chatMessages, currentTimeMs, slots,
                   gameName, hostName, encodedData, encVars, iterVars>>

NextAct == ActParse

SpecAct == InitAct /\ [][NextAct]_vars

-----------------------------------------------------------------------------
(* IterActions and its caller *)

MaxIterActions == 3   \* most actions of the replay that Parse returns

\* actionCh, errCh := p.IterActions(filepath): both channels are made, the
\* goroutine is started, the caller holds the channels
InitIter ==
    /\ wpc = "parse" /\ sendIdx = 0 /\ actionChClosed = FALSE /\ errCh = <<>>
    /\ errChClosed = FALSE /\ cpc = "recv" /\ received = <<>> /\ gotErr = "none"
    /\ pc = "iter"
    /\ file = [hdr |-> <<>>, blocks |-> <<>>]
    /\ strict = FALSE
    /\ flen = 0
    /\ accepted = FALSE
    /\ Locals(rpos, header, err, blkIdx, data, dataCap, offset, players,
              playerNames, chatMessages, actions, currentTimeMs, slots,
              gameName, hostName, encodedData, replay)
    /\ encS = <<>>
    /\ encOut = [result |-> <<>>, pos |-> 0]

\* what no step of IterActions or of its caller changes
IterFrame ==
    UNCHANGED <<fileVars, rpos, header, blkIdx, data, dataCap, pc, gdVars, encVars>>

\* replay, err := p.Parse(filepath): an error (of os.Open or of
\* ParseStream) and no replay, or a replay with its actions, each of them
\* here a pause by player 1 or 2, or a panic inside parseGameData (pc =
\* "panic" of the parser), after which the deferred calls run and the
\* program exits; err = "panic" records that Parse did not return
WorkerParse ==
    /\ wpc = "parse"
    /\ \/ \E e \in {"Open", "InvalidHeader", "Truncated", "Decompression"} :
            /\ err' = e
            /\ replay' = NilReplay
            /\ wpc' = "err"
       \/ \E as \in SeqsUpTo({[TimestampMs |-> Zero32, PlayerID |-> p,
                                ActionType |-> 1, start |-> 0, end |-> 1] :
                                 p \in {1, 2}}, MaxIterActions) :
            /\ err' = "nil"
            /\ replay' = [NilReplay EXCEPT !.ok = TRUE, !.Actions = as]
            /\ wpc' = "send"
       \/ /\ err' = "panic"
          /\ replay' = NilReplay
          /\ wpc' = "close_err"
    /\ IterFrame
    /\ UNCHANGED <<sendIdx, actionChClosed, errCh, errChClosed, cpc, received, gotErr>>

\* errCh <- err; return: the buffer of errCh is empty, the send does not block
WorkerSendErr ==
    /\ wpc = "err"
    /\ Len(errCh) < 1
    /\ errCh' = Append(errCh, err)
    /\ wpc' = "close_err"
    /\ IterFrame
    /\ UNCHANGED <<err, replay, sendIdx, actionChClosed, errChClosed, cpc,
                   received, gotErr>>

\* actionCh <- action: actionCh has no buffer, the send completes together
\* with a receive of the caller
WorkerSend ==
    /\ wpc = "send"
    /\ sendIdx < Len(replay.Actions)
    /\ cpc = "recv"
    /\ received' = Append(received, replay.Actions[sendIdx + 1])
    /\ sendIdx' = sendIdx + 1
    /\ IterFrame
    /\ UNCHANGED <<err, replay, wpc, actionChClosed, errCh, errChClosed, cpc, gotErr>>

\* the range loop over replay.Actions ends, the function returns
WorkerLoopEnd ==
    /\ wpc = "send"
    /\ sendIdx = Len(replay.Actions)
    /\ wpc' = "close_err"
    /\ IterFrame
    /\ UNCHANGED <<err, replay, sendIdx, actionChClosed, errCh, errChClosed, cpc,
                   received, gotErr>>

\* defer close(errCh): deferred last, run first
WorkerCloseErr ==
    /\ wpc = "close_err"
    /\ errChClosed' = TRUE
    /\ wpc' = "close_act"
    /\ IterFrame
    /\ UNCHANGED <<err, replay, sendIdx, actionChClosed, errCh, cpc, received, gotErr>>

\* defer close(actionCh)
WorkerCloseAct ==
    /\ wpc = "close_act"
    /\ actionChClosed' = TRUE
    /\ wpc' = IF err = "panic" THEN "crashed" ELSE "done"
    /\ IterFrame
    /\ UNCHANGED <<err, replay, sendIdx, errCh, errChClosed, cpc, received, gotErr>>

\* the caller: for action := range actionCh ends when actionCh is closed
CallerRangeEnd ==
    /\ wpc # "crashed"
    /\ cpc = "recv"
    /\ actionChClosed
    /\ cpc' = "recv_err"
    /\ IterFrame
    /\ UNCHANGED <<err, replay, wpc, sendIdx, actionChClosed, errCh, errChClosed,
                   received, gotErr>>

\* the caller: err := <-errCh, the buffered value or nil from the closed
\* channel
CallerRecvErr ==
    /\ wpc # "crashed"
    /\ cpc = "recv_err"
    /\ errCh # <<>> \/ errChClosed
    /\ gotErr' = IF errCh # <<>> THEN errCh[1] ELSE "nil"
    /\ errCh' = <<>>
    /\ cpc' = "done"
    /\ IterFrame
    /\ UNCHANGED <<err, replay, wpc, sendIdx, actionChClosed, errChClosed, received>>

\* the caller leaves its range loop early and receives no more
CallerStop ==
    /\ wpc # "crashed"
    /\ cpc = "recv"
    /\ cpc' = "stopped"
    /\ IterFrame
    /\ UNCHANGED <<err, replay, wpc, sendIdx, actionChClosed, errCh, errChClosed,
                   received, gotErr>>

NextIter ==
    \/ WorkerParse
    \/ WorkerSendErr
    \/ WorkerSend
    \/ WorkerLoopEnd
    \/ WorkerCloseErr
    \/ WorkerCloseAct
    \/ CallerRangeEnd
    \/ CallerRecvErr
    \/ CallerStop

SpecIter == InitIter /\ [][NextIter]_vars

(* The helper functions on their arguments *)

\* fmt.Sprintf("%x", b) for a byte slice: two lower-case hex digits a byte
RECURSIVE Hex(_)
Hex(b) ==
    LET digit(n) == IF n < 10 THEN 48 + n ELSE 87 + n
    IN  IF b = <<>> THEN <<>>
        ELSE <<digit(b[1] \div 16), digit(b[1] % 16)>> \o Hex(Tail(b))

\* entries of ItemIDNames, as <<key, name>>: "ability_6": "Move",
\* "ability_19": "Stop", "hkee": "Keep", "hhou": "Farm"
ItemIDNames ==
    {<<<<97, 98, 105, 108, 105, 116, 121, 95, 54>>, <<77, 111, 118, 101>>>>,
     <<<<97, 98, 105, 108, 105, 116, 121, 95, 49, 57>>, <<83, 116, 111, 112>>>>,
     <<<<104, 107, 101, 101>>, <<75, 101, 101, 112>>>>,
     <<<<104, 104, 111, 117>>, <<70, 97, 114, 109>>>>}

\* the code as it is kept in the file
AsStored(b) == <<b[1], b[2], b[3], b[4]>>

\* for i := 3; i >= 0; i-- { ... }: the four bytes from the last to the first
Reversed(b) == <<b[4], b[3], b[2], b[1]>>

\* decodeItemID
DecodeItemID(itemBytes) ==
    LET has(key) == \E e \in ItemIDNames : e[1] = key
        name(key) == (CHOOSE e \in ItemIDNames : e[1] = key)[2]
        key == <<97, 98, 105, 108, 105, 116, 121, 95>>
                 \o Dec(itemBytes[1] + 256 * itemBytes[2])
        isValid == \A i \in 1..4 :
                     ~(itemBytes[i] # 0 /\ (itemBytes[i] < 32 \/ itemBytes[i] > 126))
        code == SelectSeq(Reversed(itemBytes), LAMBDA x : x # 0)
    IN  IF Len(itemBytes) # 4 THEN Hex(itemBytes)
        ELSE IF itemBytes[3] = 13 /\ itemBytes[4] = 0
        THEN IF has(key) THEN name(key) ELSE key
        ELSE IF isValid /\ has(code) THEN name(code)
        ELSE IF isValid /\ Len(code) > 0 THEN code
        ELSE Hex(itemBytes)

\* the index of the last '/' or '\\' of p at or before i, 0 when none
RECURSIVE LastSeparator(_, _)
LastSeparator(p, i) ==
    IF i = 0 THEN 0
    ELSE IF p[i] = 47 \/ p[i] = 92 THEN i
    ELSE LastSeparator(p, i - 1)

\* extractMapName
ExtractMapName(mapPath) ==
    LET i == LastSeparator(mapPath, Len(mapPath))
        mapName == IF i = 0 THEN mapPath ELSE SubSeq(mapPath, i + 1, Len(mapPath))
        ext == SubSeq(mapName, Len(mapName) - 3, Len(mapName))
    IN  IF Len(mapName) > 4
           /\ ext \in {<<46, 119, 51, 120>>, <<46, 119, 51, 109>>,
                       <<46, 87, 51, 88>>, <<46, 87, 51, 77>>}
        THEN SubSeq(mapName, 1, Len(mapName) - 4)
        ELSE mapName

\* map paths: a directory part ("", "a/", "a\\", "/", "a/b\\"), a stem ("",
\* "a", "a.", "a/"), and an ending: none, ".w3", "w3x", or '.', 'w' or 'W',
\* '3', and one of "xXmM"
MapPaths ==
    {d \o n \o e :
       d \in {<<>>, <<97, 47>>, <<97, 92>>, <<47>>, <<97, 47, 98, 92>>},
       n \in {<<>>, <<97>>, <<97, 46>>, <<97, 47>>},
       e \in {<<>>, <<46, 119, 51>>, <<119, 51, 120>>}
              \cup {<<46, w, 51, x>> : w \in {119, 87}, x \in {120, 88, 109, 77}}}

\* buildToVersion of VersionString: build |-> <<minor, patch>> of the
\* release "1.<minor>.<patch>"
BuildToVersion ==
    [b \in {6105, 6106, 6108} \cup (6110..6123) |->
       IF b <= 6106 THEN <<32, b - 6105>>
       ELSE IF b = 6108 THEN <<32, 2>>
       ELSE IF b <= 6117 THEN <<32, b - 6107>>
       ELSE IF b <= 6121 THEN <<b - 6085, 0>>
       ELSE <<36, b - 6121>>]

\* VersionString; the version integer is hi * 2^16 + lo
VersionString(h) ==
    LET v == h.Version.hi * 65536 + h.Version.lo
        major == v \div 10000
        minor == (v % 10000) \div 100
        patch == v % 100
    IN  IF IsReforged(h)
        THEN IF h.BuildNumber \in DOMAIN BuildToVersion
             THEN <<49, 46>> \o Dec(BuildToVersion[h.BuildNumber][1])
                    \o <<46>> \o Dec(BuildToVersion[h.BuildNumber][2])
             ELSE <<49, 46, 51, 120, 32, 40, 98, 117, 105, 108, 100, 32>>
                    \o Dec(h.BuildNumber) \o <<41>>
        ELSE IF GeqSmall(h.Version, 10000)
        THEN IF patch > 0
             THEN Dec(major) \o <<46>> \o Dec(minor) \o <<46>> \o Dec(patch)
             ELSE Dec(major) \o <<46>> \o Dec(minor)
        ELSE <<49, 46>> \o Dec(v)

\* headers for VersionString: the three game identifiers, versions around
\* 29 and 10000, build numbers in and around the table
VersionHeaders ==
    {[NilHeader EXCEPT !.ok = TRUE, !.GameIdentifier = g, !.Version = U32(0, v),
                       !.BuildNumber = b] :
       g \in {GameIDClassic, GameIDTFT, GameIDReforged},
       v \in {6, 26, 28, 29, 9999, 10000, 10032, 10100},
       b \in {0, 6059, 6104, 6105, 6107, 6117, 6118, 6123, 6124}}

MaxSlots == 3   \* most slot records a game-start record declares
MaxLeaves == 2  \* most leave-game blocks of a payload

\* u32 result fields: Won, Lost, Left, and values whose low byte is 0x09
LeaveResultFields == {U32(0, 9), U32(0, 8), U32(0, 1), U32(0, 265), U32(1, 9)}

\* leave-game blocks naming player 1, player 2 and a player not in the game
LeaveBlocks ==
    {<<BlockLeaveGame>> \o LE32(U32(0, 1)) \o <<pid>> \o LE32(r) \o LE32(Zero32) :
        pid \in 1..3, r \in LeaveResultFields}

\* W3GReplay.Winner: the index of the first player whose leave result is
\* set and is Won; 0 for nil
Winner(ps) ==
    LET won == {i \in 1..Len(ps) : ps[i].LeaveResult = LeaveResultWon}
    IN  IF won = {} THEN 0 ELSE CHOOSE i \in won : \A j \in won : i <= j

\* versions on both sides of the two width thresholds, 3 and 7
GameStartVersions == {0, 2, 3, 6, 7, 26}

\* the byte values item codes are made of here: 0x00, 6, 0x0D, 0x1F, ' ',
\* 'e', 'h', 'k', '~', 0x7F
ItemBytes == {0, 6, 13, 31, 32, 101, 104, 107, 126, 127}

\* a helper is about to be called on an argument
InitFn ==
    /\ \/ /\ pc = "item"
          /\ encS \in [1..3 -> ItemBytes] \cup [1..4 -> ItemBytes]
          /\ header = NilHeader
          /\ data = NoData
          /\ players = <<>>
       \/ /\ pc = "mapname"
          /\ encS \in MapPaths
          /\ header = NilHeader
          /\ data = NoData
          /\ players = <<>>
       \/ /\ pc = "version"
          /\ encS = <<>>
          /\ header \in VersionHeaders
          /\ data = NoData
          /\ players = <<>>
       \/ /\ pc = "gamestart"
          /\ encS = <<>>
          /\ \E v \in GameStartVersions :
               header = [NilHeader EXCEPT !.ok = TRUE, !.Version = U32(0, v)]
          /\ \E c \in 0..MaxSlots, k \in 0..(9 * MaxSlots + 8) :
               data = Bytes(<<BlockGameStart, k + 1, 0, c>> \o [i \in 1..k |-> 10 + i])
          /\ players = <<>>
       \/ /\ pc = "leave"
          /\ encS = <<>>
          /\ header = NilHeader
          /\ \E bs \in SeqsUpTo(LeaveBlocks, MaxLeaves) \ {<<>>} : data = Bytes(Flat(bs))
          /\ players = <<[ZeroPlayer EXCEPT !.ID = 1], [ZeroPlayer EXCEPT !.ID = 2]>>
    /\ encOut = [result |-> <<>>, pos |-> 0]
    /\ IterIdle
    /\ file = [hdr |-> <<>>, blocks |-> <<>>]
    /\ strict = FALSE
    /\ flen = 0
    /\ accepted = FALSE
    /\ rpos = 0 /\ err = "nil" /\ blkIdx = 0 /\ dataCap = DataLen(data)
    /\ offset = 0 /\ playerNames = <<>> /\ chatMessages = <<>>
    /\ actions = <<>> /\ currentTimeMs = Zero32 /\ slots = <<>> /\ gameName = <<>>
    /\ hostName = <<>> /\ encodedData = <<>> /\ replay = NilReplay

\* what a helper call leaves alone
FnFrame ==
    UNCHANGED <<fileVars, rpos, header, err, blkIdx, data, dataCap, replay,
                encS, iterVars, playerNames, chatMessages, actions,
                currentTimeMs, gameName, hostName, encodedData>>

\* DecodeItemID(encS)
FnDecodeItemID ==
    /\ pc = "item"
    /\ encOut' = DecodeItemID(encS)
    /\ pc' = "item_done"
    /\ FnFrame
    /\ UNCHANGED <<offset, slots, players>>

\* extractMapName(encS)
FnExtractMapName ==
    /\ pc = "mapname"
    /\ encOut' = ExtractMapName(encS)
    /\ pc' = "mapname_done"
    /\ FnFrame
    /\ UNCHANGED <<offset, slots, players>>

\* header.VersionString()
FnVersionString ==
    /\ pc = "version"
    /\ encOut' = VersionString(header)
    /\ pc' = "version_done"
    /\ FnFrame
    /\ UNCHANGED <<offset, slots, players>>

\* slots, _, _, newOffset := parseGameStartRecord(data, 0, header.Version)
FnGameStart ==
    /\ pc = "gamestart"
    /\ LET gs == ParseGameStartRecord(data, offset, header.Version)
       IN  /\ slots' = gs.slots
           /\ offset' = gs.off
    /\ pc' = "gamestart_done"
    /\ FnFrame
    /\ UNCHANGED <<encOut, players>>

\* case BlockLeaveGame of the event loop, on a payload of leave-game blocks
FnLeaveGame ==
    /\ pc = "leave"
    /\ offset < DataLen(data)
    /\ At(data, offset) = BlockLeaveGame
    /\ LET o == offset + 1
       IN  IF o + 13 <= DataLen(data)
           THEN /\ players' = StampLeave(players, At(data, o + 4), U32D(data, o + 5))
                /\ offset' = o + 13
           ELSE /\ offset' = o
                /\ UNCHANGED players
    /\ pc' = IF offset' >= DataLen(data) THEN "leave_done" ELSE "leave"
    /\ FnFrame
    /\ UNCHANGED <<encOut, slots>>

NextFn ==
    \/ FnLeaveGame
    \/ FnDecodeItemID
    \/ FnGameStart
    \/ FnVersionString
    \/ FnExtractMapName

SpecFn == InitFn /\ [][NextFn]_vars

-----------------------------------------------------------------------------
(* Properties *)

\* the bytes parseHeader can read, and the block IDs the event loop knows
HeaderInput == SubSeq(file.hdr, 1, Min(Len(file.hdr), flen))
VariantOf(in) == U32At(in, 36)
EventOpcodes == {23, 26, 27, 28, 30, 31, 32, 34, 35, 47}
TimeSlotOpcodes == {30, 31}

\* C1: once the 48-byte base header has been read, parseHeader returns
\* InvalidHeader when the first 28 bytes are not the magic string or the u32
\* at 0x24 is neither 0 nor 1, and Truncated when the magic and the variant
\* are good but fewer than 16 (variant 0) or 20 (variant 1) sub-header bytes
\* follow; no header is returned in these cases, and a header that is
\* returned has the magic and a variant in {0, 1}.
C1_HeaderErrors ==
    LET in == HeaderInput
        badMagic == SubSeq(in, 1, 28) # MagicString
        badVariant == VariantOf(in) \notin {U32(0, 0), U32(0, 1)}
        need == IF VariantOf(in) = U32(0, 0) THEN 48 + 16 ELSE 48 + 20
    IN  /\ (pc # "start" /\ Len(in) >= 48 /\ (badMagic \/ badVariant))
              => (err = "InvalidHeader" /\ ~header.ok /\ ~replay.ok)
        /\ (pc # "start" /\ Len(in) >= 48 /\ ~badMagic /\ ~badVariant /\ Len(in) < need)
              => (err = "Truncated" /\ ~header.ok /\ ~replay.ok)
        /\ header.ok
              => (header.Magic = MagicString
                    /\ header.HeaderVersion \in {U32(0, 0), U32(0, 1)})

\* a header with the magic and a variant that is neither 0 nor 1 was rejected
C1_Witness ==
    /\ pc = "done"
    /\ Len(HeaderInput) >= 48
    /\ SubSeq(HeaderInput, 1, 28) = MagicString
    /\ VariantOf(HeaderInput) = U32(1, 1)
    /\ err = "InvalidHeader"

\* C2: at an event opcode outside the known set, a strict parse stops with
\* an Unknown error and no replay, and a non-strict parse skips that one
\* byte, reports no error and goes on with the next byte.
C2_UnknownOpcode ==
    [][(pc = "events" /\ offset < DataLen(data)
          /\ At(data, offset) \notin EventOpcodes)
         => IF strict
            THEN pc' = "done" /\ err' = "Unknown" /\ ~replay'.ok
            ELSE pc' = "events" /\ err' = "nil" /\ offset' = offset + 1]_vars

\* C3: a non-strict parse of a prefix, at least as long as the header, of
\* a file whose full parse returned a replay returns a replay and no error.
C3_PrefixParses ==
    (pc = "done" /\ accepted /\ ~strict /\ flen < TotalLen(file)
       /\ flen >= Len(file.hdr))
      => (err = "nil" /\ replay.ok)

\* C4: a leave-game block naming a player sets that player's leave time to
\* the clock and its leave result to the block's result, and a later
\* time-slot block changes neither.
C4_LeaveStampKept ==
    [][/\ (pc = "events" /\ offset + 14 <= DataLen(data)
             /\ At(data, offset) = 23)
           => \A i \in 1..Len(players) :
                (players[i].ID = At(data, offset + 5)
                   /\ \A j \in 1..(i - 1) : players[j].ID # players[i].ID)
                  => /\ Deref(players'[i].LeaveTimeMs, currentTimeMs') = currentTimeMs
                     /\ U32(0, players'[i].LeaveResult) = U32D(data, offset + 6)
       /\ (pc = "events" /\ pc' = "events" /\ offset < DataLen(data)
             /\ At(data, offset) \in TimeSlotOpcodes)
           => \A i \in 1..Len(players) :
                players[i].LeaveTimeMs # NilPtr
                  => /\ Deref(players'[i].LeaveTimeMs, currentTimeMs')
                          = Deref(players[i].LeaveTimeMs, currentTimeMs)
                     /\ players'[i].LeaveResult = players[i].LeaveResult]_vars

\* C5: the player list of a returned replay has, for every slot that is
\* Used and a computer, a player with the slot's ID, the name
\* "Computer <id>", is-computer set, and the slot's team, colour, race and
\* handicap.
C5_ComputerPlayers ==
    replay.ok =>
      \A k \in 1..Len(slots) :
        (slots[k].SlotStatus = 2 /\ slots[k].IsComputer)
          => \E i \in 1..Len(replay.Players) :
               LET p == replay.Players[i]
               IN  /\ p.ID = slots[k].PlayerID
                   /\ p.Name = <<67, 111, 109, 112, 117, 116, 101, 114, 32>>
                                  \o Dec(slots[k].PlayerID)
                   /\ p.IsComputer
                   /\ p.Team = slots[k].Team
                   /\ p.Color = slots[k].Color
                   /\ p.Race = RaceFromFlags(slots[k].RaceFlags)
                   /\ p.Handicap = slots[k].Handicap

\* C6: in a returned replay, no action has a timestamp smaller than the
\* action before it.
C6_TimestampsMonotone ==
    replay.ok =>
      \A i \in 1..(Len(replay.Actions) - 1) :
        LeqU32(replay.Actions[i].TimestampMs, replay.Actions[i + 1].TimestampMs)

\* C7: a time-slot block adds to each player's action count the number of
\* its decoded actions that carry the player's ID and whose opcode is not
\* 0x1B, 0x19 or 0x1A.
C7_CountExcludes ==
    [][(pc = "events" /\ pc' = "events" /\ offset < DataLen(data)
          /\ At(data, offset) \in TimeSlotOpcodes)
         => \A i \in 1..Len(players) :
              players'[i].ActionCount
                = players[i].ActionCount
                    + Cardinality({j \in (Len(actions) + 1)..Len(actions') :
                                     /\ actions'[j].PlayerID = players[i].ID
                                     /\ actions'[j].ActionType \notin {25, 26, 27}})]_vars

\* C8: for every player of a returned replay, the APM is zero when the
\* header duration is 0 ms, and otherwise it is the action count divided
\* by (duration / 60000).
C8_APM ==
    replay.ok =>
      \A i \in 1..Len(replay.Players) :
        LET p == replay.Players[i]
        IN  IF replay.Header.DurationMs = U32(0, 0)
            THEN p.APM.num = 0
            ELSE /\ p.APM.num = p.ActionCount
                 /\ p.APM.den = replay.Header.DurationMs
                 /\ p.APM.scale = 60000

\* a replay of a game of non-zero duration was returned with a player who
\* has actions
C8_Witness ==
    /\ replay.ok
    /\ replay.Header.DurationMs # U32(0, 0)
    /\ \E i \in 1..Len(replay.Players) : replay.Players[i].ActionCount > 0

\* C9: decodeEncodedString applied to the stuffed encoding of a string
\* without NUL returns that string, of the same length and with the same
\* bytes.
C9_DecodeInvertsEncode ==
    pc = "enc_done" => encOut.result = encS

\* C10: when the reader of a block (zlib for Reforged, raw deflate for
\* Classic) reaches the end of the block's bytes after it has produced at
\* least one byte, the bytes are appended to the payload, the loop goes on
\* to the next block and no error is returned.
C10_KeepsProducedBytes ==
    [][(pc = "blocks" /\ MoreBlocks(blkIdx, header.NumCompressedBlocks)
          /\ blkIdx < Len(file.blocks)
          /\ rpos + Len(file.blocks[blkIdx + 1].bh) + file.blocks[blkIdx + 1].size
               <= ReadableLen)
         => LET blk == file.blocks[blkIdx + 1]
                r == IF IsReforged(header)
                     THEN blk.zlib
                     ELSE [hdr |-> "ok", out |-> blk.deflate.out,
                           end |-> blk.deflate.end]
            IN  (r.hdr = "ok" /\ r.end = "UnexpectedEOF" /\ DataLen(r.out) >= 1)
                  => /\ DataLen(data') = DataLen(data) + DataLen(r.out)
                     /\ blkIdx' = blkIdx + 1
                     /\ err' = "nil"
                     /\ pc' = "blocks"]_vars

\* what one block's bytes decode to on the path the version selects: zlib
\* for Reforged; raw deflate for Classic, and zlib when raw deflate failed
ZlibProduced(z) == IF z.hdr = "ok" THEN z.out ELSE NoData
Produced(blk, isRef) ==
    IF isRef \/ blk.deflate.end # "EOF" THEN ZlibProduced(blk.zlib)
    ELSE blk.deflate.out

\* C11: a block that is wholly read and whose decoding (zlib for Reforged;
\* raw deflate, then zlib after a failure, for Classic) produces zero bytes
\* makes the parse end with a Decompression error and no replay.
C11_ZeroBytesRejected ==
    [][(pc = "blocks" /\ MoreBlocks(blkIdx, header.NumCompressedBlocks)
          /\ blkIdx < Len(file.blocks)
          /\ rpos + Len(file.blocks[blkIdx + 1].bh) + file.blocks[blkIdx + 1].size
               <= ReadableLen
          /\ DataLen(Produced(file.blocks[blkIdx + 1], IsReforged(header))) = 0)
         => (pc' = "done" /\ err' = "Decompression" /\ ~replay'.ok)]_vars

\* the outputs of the blocks bs joined in file order, for outputs without a
\* run of filler blocks
RECURSIVE ConcatProduced(_, _)
ConcatProduced(bs, isRef) ==
    IF bs = <<>> THEN <<>>
    ELSE Produced(bs[1], isRef).head \o Produced(bs[1], isRef).tail
           \o ConcatProduced(Tail(bs), isRef)

\* C12: with hl = 12 when the version is >= 29 or the identifier is PX3W
\* and hl = 8 otherwise, and size the first u16 of the block header: a
\* block whose header or payload the input ends in makes decompressBlocks
\* return Truncated and no payload; a block that is decoded moves the reader
\* by hl + size bytes, appends the block's output to the payload and goes
\* on with the next block; and decompressBlocks returns after exactly the
\* declared number of blocks, with the outputs joined in file order.
C12_BlocksInOrder ==
    [][LET isRef == GeqSmall(header.Version, 29)
                      \/ header.GameIdentifier = <<80, 88, 51, 87>>
           hl == IF isRef THEN 12 ELSE 8
           blk == file.blocks[blkIdx + 1]
           size == blk.bh[1] + 256 * blk.bh[2]
       IN  /\ (pc = "blocks" /\ MoreBlocks(blkIdx, header.NumCompressedBlocks)
                 /\ rpos + hl + (IF rpos + hl <= ReadableLen THEN size ELSE 0)
                      > ReadableLen)
               => (pc' = "done" /\ err' = "Truncated" /\ ~replay'.ok)
           /\ (pc = "blocks" /\ pc' = "blocks")
               => /\ Len(blk.bh) = hl
                  /\ rpos' = rpos + hl + size
                  /\ blkIdx' = blkIdx + 1
                  /\ DataLen(data') = DataLen(data) + DataLen(Produced(blk, isRef))
                  /\ \A i \in 0..(DataLen(data) - 1) :
                       data.reps = 0 => At(data', i) = At(data, i)
           /\ (pc = "blocks" /\ pc' = "gd_host")
               => /\ header.NumCompressedBlocks = U32(0, blkIdx)
                  /\ blkIdx = Len(file.blocks)
                  /\ rpos = TotalLen(file)
                  /\ IF data.reps = 0
                     THEN data.head \o data.tail = ConcatProduced(file.blocks, isRef)
                     ELSE data = Produced(file.blocks[1], isRef)]_vars

\* a Reforged file of two blocks with different outputs was decoded, the
\* second output after the first
C12_Witness ==
    /\ pc = "gd_host"
    /\ IsReforged(header)
    /\ blkIdx = 2
    /\ rpos = Len(file.hdr) + 12 + 7 + 12 + 6
    /\ data.head \o data.tail = <<1, 2, 16, 1, 0, 0>>

\* the player ID byte of the command frame that holds position pos, the
\* frames being laid out from f on by their declared lengths
RECURSIVE FramePlayer(_, _, _)
FramePlayer(d, f, pos) ==
    IF pos < f + 3 + U16(d, f + 1) THEN At(d, f)
    ELSE FramePlayer(d, f + 3 + U16(d, f + 1), pos)

\* C13: a time-slot block with declared length n >= 2 and increment d whose
\* n + 3 bytes lie inside the payload adds d to the clock, appends actions
\* that all carry the new clock value and the player ID of their command
\* frame, and leaves the cursor n + 2 bytes after the byte that follows the
\* opcode, with the event loop going on.
C13_TimeSlotStep ==
    [][LET n == U16(data, offset + 1)
           d == U16(data, offset + 3)
       IN  (pc = "events" /\ offset + 5 <= DataLen(data)
              /\ At(data, offset) \in TimeSlotOpcodes
              /\ n >= 2 /\ offset + 3 + n <= DataLen(data))
             => /\ currentTimeMs' = AddU16(currentTimeMs, d)
                /\ Len(actions') >= Len(actions)
                /\ \A j \in 1..Len(actions) : actions'[j] = actions[j]
                /\ \A j \in (Len(actions) + 1)..Len(actions') :
                     /\ actions'[j].TimestampMs = currentTimeMs'
                     /\ actions'[j].PlayerID
                          = FramePlayer(data, offset + 5, actions'[j].start)
                /\ pc' = "events"
                /\ offset' = offset + 1 + n + 2]_vars

\* the bytes an ability action takes after its opcode byte
AbilityBytes(op, version) ==
    (CASE op = 16 -> 14 [] op = 17 -> 22 [] op = 18 -> 30 [] op = 19 -> 38
       [] op = 20 -> 43)
      - (IF LtSmall(version, 13) THEN 1 ELSE 0)

\* C14: when at least as many bytes follow the opcode byte, parseAction
\* consumes after it 14 bytes for 0x10, 22 for 0x11, 30 for 0x12, 38 for
\* 0x13 and 43 for 0x14 in version >= 13, and one byte fewer in version
\* < 13.
C14_AbilityWidths ==
    (pc \in {"act_done", "act_panic"} /\ At(data, 0) \in AbilityOpcodes
       /\ DataLen(data) - 1 >= AbilityBytes(At(data, 0), header.Version))
      => (pc = "act_done"
            /\ offset = 1 + AbilityBytes(At(data, 0), header.Version))

\* the opcodes parseAction has a case for, and the cheat range 0x20..0x32
ListedActionOpcodes ==
    {1, 2, 3, 4, 5, 6, 7, 16, 17, 18, 19, 20, 22, 23, 24, 25, 26, 27, 28, 29,
     30, 80, 81, 96, 97, 98, 102, 103, 104, 105, 106, 117} \cup (32..50)

\* the offsets at which the command frames of a block start, the block's
\* command data being data[f .. end - 1]
RECURSIVE FrameStarts(_, _, _)
FrameStarts(d, f, end) ==
    IF f + 3 > end THEN {}
    ELSE {f} \cup FrameStarts(d, f + 3 + U16(d, f + 1), end)

\* C15: in a time-slot block that lies inside the payload, when the action
\* decoder arrives, at the start of a command frame or after an action of
\* it, at an opcode that is neither listed nor in 0x20..0x32, no action is
\* appended for that byte or for the rest of the frame, the next command
\* frame of the block, when it starts with a listed opcode, yields an
\* action that starts at the frame's first action byte and carries the
\* frame's player ID, and the event loop goes on after the block.
C15_UnknownActionStopsFrame ==
    [][LET n == U16(data, offset + 1)
           end == offset + 3 + n
           new == {actions'[j] : j \in (Len(actions) + 1)..Len(actions')}
       IN  (pc = "events" /\ offset + 5 <= DataLen(data)
              /\ At(data, offset) \in TimeSlotOpcodes
              /\ n > 2 /\ end <= DataLen(data))
             => \A f \in FrameStarts(data, offset + 5, end) :
                  LET g == f + 3 + U16(data, f + 1)
                  IN  \A q \in (f + 3)..(Min(g, end) - 1) :
                        (/\ At(data, q) \notin ListedActionOpcodes
                         /\ \/ q = f + 3
                            \/ \E a \in new : a.start >= f + 3 /\ a.end = q)
                          => /\ \A a \in new : ~(a.start >= q /\ a.start < g)
                             /\ (g + 3 < end /\ U16(data, g + 1) >= 1
                                   /\ At(data, g + 3) \in ListedActionOpcodes)
                                  => \E a \in new : /\ a.start = g + 3
                                                    /\ a.PlayerID = At(data, g)
                             /\ pc' = "events"
                             /\ offset' = end]_vars

\* a valid game-start candidate: byte 0x19, u16 in 10..500, slot count in
\* 2..24, all four bytes inside the payload
ValidCandidate(d, o) ==
    /\ o + 4 <= DataLen(d)
    /\ At(d, o) = 25
    /\ U16(d, o + 1) \in 10..500
    /\ At(d, o + 3) \in 2..24

\* C16: when the offset reached after the additional-player list is not a
\* valid game-start candidate, the search moves the cursor to the smallest
\* later valid candidate, and leaves it unchanged when there is none.
C16_GameStartSearch ==
    [][(pc = "gd_search" /\ ~ValidCandidate(data, offset))
         => LET later == {o \in (offset + 1)..(DataLen(data) - 1) :
                            ValidCandidate(data, o)}
            IN  /\ pc' = "gd_start"
                /\ later = {} => offset' = offset
                /\ later # {} => /\ offset' \in later
                                 /\ \A o \in later : offset' <= o]_vars

\* the search went past a 0x19 byte that is no valid candidate (slot count
\* 30) and stopped on the game-start record behind it
C16_Witness ==
    /\ pc = "gd_start"
    /\ offset >= 6
    /\ ValidCandidate(data, offset)
    /\ At(data, offset - 6) = 9
    /\ At(data, offset - 5) = 25 /\ ~ValidCandidate(data, offset - 5)

\* C17: parsePlayerRecord called at a byte that is not the expected record
\* opcode (0x00 for the host, 0x16 for an additional player) returns no
\* player and the cursor it was given; the run of additional players ends
\* at the first byte that is not 0x16 with the cursor on that byte and the
\* player list unchanged.
C17_MismatchRewinds ==
    [][/\ (pc = "gd_players" /\ offset < DataLen(data)
             /\ At(data, offset) # 22)
          => /\ ~ParsePlayerRecord(data, offset, FALSE).ok
             /\ ParsePlayerRecord(data, offset, FALSE).off = offset
             /\ pc' = "gd_search"
             /\ offset' = offset
             /\ players' = players
             /\ playerNames' = playerNames
       /\ \A o0 \in {IF 4 <= DataLen(data) THEN 4 ELSE 0} :
            (pc = "gd_host" /\ o0 < DataLen(data) /\ At(data, o0) # 0)
              => /\ ~ParsePlayerRecord(data, o0, TRUE).ok
                 /\ ParsePlayerRecord(data, o0, TRUE).off = o0
                 /\ offset' = o0
                 /\ players' = players
                 /\ playerNames' = playerNames]_vars

\* the run of additional players ended on the 0x19 byte of the game-start
\* record after the host and one additional player
C17_Witness ==
    /\ pc = "gd_search"
    /\ Len(players) = 2
    /\ offset < DataLen(data)
    /\ At(data, offset) = 25

\* the slots of ss that are Used, not a computer, and carry the player ID
\* id, as indexes of ss
HumanSlotsOf(ss, id) ==
    {j \in 1..Len(ss) : /\ ss[j].SlotStatus = 2
                        /\ ~ss[j].IsComputer
                        /\ ss[j].PlayerID = id}

\* C18: after the game-start record, every parsed player whose ID is that
\* of a Used non-computer slot has that slot's team, colour, handicap and
\* status (the last such slot when there are several), has a slot's race
\* only when no race was set from ladder data, and is marked observer
\* exactly when the team is 12 for version < 29 or 24 for version >= 29;
\* players matched by no Used slot are left unchanged.
C18_SlotsApplied ==
    [][(pc = "gd_start" /\ offset < DataLen(data) /\ At(data, offset) = 25)
         => /\ Len(players') = Len(players)
            /\ \A i \in 1..Len(players) :
                 LET m == HumanSlotsOf(slots', players[i].ID)
                     used == {j \in 1..Len(slots') :
                                /\ slots'[j].SlotStatus = 2
                                /\ slots'[j].PlayerID = players[i].ID}
                     last == CHOOSE j \in m : \A k \in m : k <= j
                     obs == IF header.Version.hi > 0 \/ header.Version.lo >= 29
                            THEN 24 ELSE 12
                 IN  /\ used = {} => players'[i] = players[i]
                     /\ m # {}
                          => /\ players'[i].Team = slots'[last].Team
                             /\ players'[i].Color = slots'[last].Color
                             /\ players'[i].Handicap = slots'[last].Handicap
                             /\ players'[i].SlotStatus = slots'[last].SlotStatus
                             /\ players[i].Race # RaceUnknown
                                  => players'[i].Race = players[i].Race
                             /\ players[i].Race = RaceUnknown
                                  => \E j \in m : players'[i].Race
                                        = RaceFromFlags(slots'[j].RaceFlags)
                             /\ players'[i].IsObserver
                                  <=> (players'[i].Team = obs)]_vars

\* the sender name the chat message of sender id is to carry: the name of
\* the parsed player with that ID (the last one when several share it), or
\* "Player <id>" when there is none, and also when that name is empty if
\* emptyFallsBack
SenderName(ps, id, emptyFallsBack) ==
    LET m == {i \in 1..Len(ps) : ps[i].ID = id}
        last == CHOOSE i \in m : \A k \in m : k <= i
    IN  IF m = {} \/ (emptyFallsBack /\ ps[last].Name = <<>>)
        THEN <<80, 108, 97, 121, 101, 114, 32>> \o Dec(id)
        ELSE ps[last].Name

\* the step of the event loop at a 0x20 block that lies inside the payload
\* (sender, length, flags, the mode when flags = 0x20, body and its NUL)
\* decodes it into one chat message
ChatBlockDecoded(emptyFallsBack) ==
    LET flags == At(data, offset + 4)
        b == IF flags = 32 THEN offset + 9 ELSE offset + 5
        nuls == {z \in b..(DataLen(data) - 1) : At(data, z) = 0}
        z0 == CHOOSE z \in nuls : \A y \in nuls : z <= y
        msg == chatMessages'[Len(chatMessages')]
    IN  (pc = "events" /\ offset + 5 <= DataLen(data)
           /\ At(data, offset) = 32 /\ b <= DataLen(data) /\ nuls # {})
          => /\ Len(chatMessages') = Len(chatMessages) + 1
             /\ \A j \in 1..Len(chatMessages) : chatMessages'[j] = chatMessages[j]
             /\ msg.PlayerID = At(data, offset + 1)
             /\ msg.IsStartup = (flags = 16)
             /\ msg.Mode = IF flags = 32 THEN U32D(data, offset + 5) ELSE Zero32
             /\ msg.Message = [k \in 1..(z0 - b) |-> At(data, b + k - 1)]
             /\ msg.TimestampMs = currentTimeMs
             /\ msg.PlayerName
                  = SenderName(players, At(data, offset + 1), emptyFallsBack)
             /\ offset' = z0 + 1
             /\ pc' = "events"

\* C19 as stated: for every 0x20 block that lies inside the payload, the
\* chat decoder reads a u32 mode only when flags = 0x20 (0x10 marks a
\* startup message with no mode), reads the body up to its NUL, and appends
\* one chat message stamped with the clock, whose sender name is the name
\* of the parsed player with the sender ID, or "Player <id>" when no parsed
\* player has that ID.
C19_ChatAsStated == [][ChatBlockDecoded(FALSE)]_vars

\* C19 amended: the same, the sender name being "Player <id>" also when the
\* name of the parsed player with the sender ID is empty.
C19_ChatDecoded == [][ChatBlockDecoded(TRUE)]_vars

\* a chat message of player 1 with mode 1, named "Player 1" although the
\* host was parsed with ID 1 and an empty name
C19_Witness ==
    /\ Len(chatMessages) >= 1
    /\ Len(players) >= 1
    /\ players[1].ID = 1 /\ players[1].Name = <<>>
    /\ \A i \in 2..Len(players) : players[i].ID # 1
    /\ chatMessages[1].PlayerID = 1
    /\ chatMessages[1].Mode = U32(0, 1)
    /\ chatMessages[1].PlayerName = <<80, 108, 97, 121, 101, 114, 32, 49>>

\* the steps of the goroutine
WorkerStep ==
    \/ WorkerParse
    \/ WorkerSendErr
    \/ WorkerSend
    \/ WorkerLoopEnd
    \/ WorkerCloseErr
    \/ WorkerCloseAct

\* C20: when the caller of IterActions has stopped receiving from the
\* action channel before every action was delivered, the goroutine is not
\* blocked: it has a step to take until it has terminated.
C20_WorkerNotBlocked ==
    (cpc = "stopped" /\ wpc \notin {"done", "crashed"}) => ENABLED WorkerStep

\* the steps of a caller that drains the action channel and then receives
\* once from the error channel, and those of the goroutine
DrainStep ==
    \/ WorkerStep
    \/ CallerRangeEnd
    \/ CallerRecvErr

\* C21: a caller that drains the action channel and then receives once
\* from the error channel always terminates: until it is done, it or the
\* goroutine has a step to take; when it is done, both channels are
\* closed, it has received every action of the parsed replay once and in
\* replay order, or no action and one error when the parse failed, and it
\* has seen an error exactly when Parse returned no replay.
C21_DrainTerminates ==
    /\ cpc \in {"recv", "recv_err"} => ENABLED DrainStep
    /\ cpc = "done"
         => /\ actionChClosed /\ errChClosed /\ errCh = <<>>
            /\ received = replay.Actions
            /\ (gotErr # "nil") <=> ~replay.ok
            /\ ~replay.ok => received = <<>>

\* C22: for every 4-character printable-ASCII code c, DecodeItemID applied
\* to the four bytes of c in reverse order returns the name-table entry
\* for c when the table has one and c itself otherwise.
C22_ItemIDRoundTrip ==
    (pc = "item_done" /\ Len(encS) = 4 /\ \A i \in 1..4 : encS[i] \in 32..126)
      => LET c == <<encS[4], encS[3], encS[2], encS[1]>>
             hits == {e \in ItemIDNames : e[1] = c}
         IN  /\ hits = {} => encOut = c
             /\ \A e \in hits : encOut = e[2]

\* the bytes "eekh" gave the table entry of "hkee", "Keep"
C22_Witness ==
    /\ pc = "item_done"
    /\ encS = <<101, 101, 107, 104>>
    /\ encOut = <<75, 101, 101, 112>>

\* an ASCII letter in lower case
LowerByte(b) == IF b \in 65..90 THEN b + 32 ELSE b

\* C23: extractMapName returns the part of the map path after its last '/'
\* or '\' separator, with a trailing ".w3m" or ".w3x" suffix removed
\* whatever the letter case of the suffix (a name that is nothing but the
\* suffix is left to the function).
C23_MapName ==
    pc = "mapname_done"
      => LET seps == {i \in 1..Len(encS) : encS[i] \in {47, 92}}
             from == IF seps = {} THEN 1
                     ELSE 1 + CHOOSE i \in seps : \A j \in seps : j <= i
             last == SubSeq(encS, from, Len(encS))
             n == Len(last)
             suffixed == /\ n >= 4
                         /\ [k \in 1..4 |-> LowerByte(last[n - 4 + k])]
                              \in {<<46, 119, 51, 109>>, <<46, 119, 51, 120>>}
         IN  n # 4 => encOut = IF suffixed THEN SubSeq(last, 1, n - 4) ELSE last

\* the header is a Reforged one: version >= 29 or game identifier "PX3W"
ReforgedHeader ==
    \/ header.Version.hi > 0 \/ header.Version.lo >= 29
    \/ header.GameIdentifier = <<80, 88, 51, 87>>

\* the release of a known build number, 6105 |-> "1.32.0", 6117 |->
\* "1.32.10", 6118 |-> "1.33.0", 6123 |-> "1.36.2"; <<>> for the others of
\* the model's headers
ReleaseOf(b) ==
    IF b = 6105 THEN <<49, 46, 51, 50, 46, 48>>
    ELSE IF b = 6117 THEN <<49, 46, 51, 50, 46, 49, 48>>
    ELSE IF b = 6118 THEN <<49, 46, 51, 51, 46, 48>>
    ELSE IF b = 6123 THEN <<49, 46, 51, 54, 46, 50>>
    ELSE <<>>

\* "major.minor[.patch]" for a version integer >= 10000, "1.<version>" for
\* a smaller one
Decomposed(v) ==
    IF v >= 10000
    THEN Dec(v \div 10000) \o <<46>> \o Dec((v % 10000) \div 100)
           \o (IF v % 100 > 0 THEN <<46>> \o Dec(v % 100) ELSE <<>>)
    ELSE <<49, 46>> \o Dec(v)

\* VersionString on a header, unknownBuild being what a Reforged header
\* with an unknown build number is to give
VersionStringIs(unknownBuild) ==
    pc = "version_done"
      => encOut = IF ReforgedHeader /\ ReleaseOf(header.BuildNumber) # <<>>
                  THEN ReleaseOf(header.BuildNumber)
                  ELSE IF ReforgedHeader THEN unknownBuild
                  ELSE Decomposed(header.Version.lo)

\* C24 as stated: VersionString returns the mapped release (builds
\* 6105..6123 give 1.32.0..1.36.2) for a Reforged header with a known
\* build number; for every other header it returns major.minor[.patch]
\* when the version integer is >= 10000 and 1.<version> otherwise.
C24_VersionAsStated == VersionStringIs(Decomposed(header.Version.lo))

\* C24 amended: a Reforged header with a build number that is not known
\* gives "1.3x (build <n>)"; the decomposition is what every header that
\* is not Reforged gives.
C24_VersionString ==
    VersionStringIs(<<49, 46, 51, 120, 32, 40, 98, 117, 105, 108, 100, 32>>
                      \o Dec(header.BuildNumber) \o <<41>>)

\* a Reforged header by its game identifier, with version 28 and the
\* unknown build 6124, gave "1.3x (build 6124)"
C24_Witness ==
    /\ pc = "version_done"
    /\ header.GameIdentifier = <<80, 88, 51, 87>>
    /\ header.Version = U32(0, 28)
    /\ header.BuildNumber = 6124
    /\ encOut = <<49, 46, 51, 120, 32, 40, 98, 117, 105, 108, 100, 32,
                  54, 49, 50, 52, 41>>

\* C25: a file whose header is valid and declares zero compressed blocks
\* parses successfully into a replay with empty player, chat and action
\* lists; for header variant 0 with version 6 and flags 0 the replay's
\* header reports is-reforged false and is-expansion false.
C25_ZeroBlocks ==
    (pc = "done" /\ header.ok /\ header.NumCompressedBlocks = Zero32)
      => /\ err = "nil"
         /\ replay.ok
         /\ replay.Players = <<>>
         /\ replay.ChatMessages = <<>>
         /\ replay.Actions = <<>>
         /\ (header.HeaderVersion = Zero32 /\ header.Version = U32(0, 6)
               /\ header.Flags = 0)
              => /\ replay.Header.Version = U32(0, 6)
                 /\ replay.Header.GameIdentifier
                      \notin {<<87, 51, 88, 80>>, <<80, 88, 51, 87>>}
                 /\ IsReforged(replay.Header) = FALSE
                 /\ IsExpansion(replay.Header) = FALSE

\* the parse of a file with a variant-0 header of version 6, flags 0 and
\* no block has returned
C25_Witness ==
    /\ pc = "done"
    /\ header.ok
    /\ header.NumCompressedBlocks = Zero32
    /\ header.HeaderVersion = Zero32
    /\ header.Version = U32(0, 6)
    /\ header.Flags = 0
    /\ replay.ok
    /\ data = NoData

\* C26: parseGameData and the decoders it calls read the payload only
\* through length-checked accesses: no slice bound exceeds what the
\* payload allows (no slice panics), and the raw payload bytes of every
\* returned action are a range that lies inside the payload.
C26_LengthChecked ==
    /\ pc # "panic"
    /\ \A j \in 1..Len(actions) :
         /\ actions[j].start <= actions[j].end
         /\ actions[j].end <= DataLen(data)

\* C27: parseGameStartRecord reads slot-count slot records of 7 bytes when
\* version < 3, 8 bytes when 3 <= version < 7 and 9 bytes when version >=
\* 7, then a u32 seed, a select-mode byte and a start-spot byte: with
\* enough data the cursor ends 1 + 2 + 1 + slot-count * width + 6 bytes
\* after the 0x19 opcode; a slot record narrower than 9 bytes gets
\* handicap 100.
C27_GameStartWidths ==
    LET v == header.Version.lo
        w == IF v < 3 THEN 7 ELSE IF v < 7 THEN 8 ELSE 9
        c == At(data, 3)
    IN  (pc = "gamestart_done" /\ DataLen(data) >= 4 + c * w + 6)
          => /\ offset = 1 + 2 + 1 + c * w + 6
             /\ Len(slots) = c
             /\ \A i \in 1..c :
                  LET b == 4 + (i - 1) * w
                  IN  /\ slots[i].PlayerID = At(data, b)
                      /\ slots[i].DownloadPercent = At(data, b + 1)
                      /\ slots[i].SlotStatus = At(data, b + 2)
                      /\ slots[i].IsComputer = (At(data, b + 3) = 1)
                      /\ slots[i].Team = At(data, b + 4)
                      /\ slots[i].Color = At(data, b + 5)
                      /\ slots[i].RaceFlags = At(data, b + 6)
                      /\ slots[i].Handicap = IF w < 9 THEN 100 ELSE At(data, b + 8)

\* version 2, three slot records of 7 bytes, cursor at 4 + 21 + 6, and the
\* handicap of the last slot is 100
C27_Witness ==
    /\ pc = "gamestart_done"
    /\ header.Version = U32(0, 2)
    /\ At(data, 3) = 3
    /\ Len(slots) = 3
    /\ slots[3].PlayerID = At(data, 18)
    /\ slots[3].Handicap = 100
    /\ offset = 31

\* positions of parseGameData, in the order of its text
GameDataPcs == {"gd_host", "gd_name", "gd_players", "gd_search", "gd_start", "events"}
PcRank(p) ==
    CASE p = "gd_host" -> 1 [] p = "gd_name" -> 2 [] p = "gd_players" -> 3
      [] p = "gd_search" -> 4 [] p = "gd_start" -> 5 [] p = "events" -> 6
      [] OTHER -> 7

\* what a step of parseGameData does to the cursors of its loops
LoopsAdvance ==
    LET n == DataLen(data)
        new == [j \in 1..(Len(actions') - Len(actions)) |->
                  actions'[Len(actions) + j]]
        nameEnd == ScanNul(data, offset)
        o1 == nameEnd + 1
        o2 == IF o1 < n /\ At(data, o1) = 0 THEN o1 + 1 ELSE o1
        dec == DecodeEncodedString(data, o2)
        groups == dec.pos - o2 - Len(dec.result)
    IN  /\ pc \in GameDataPcs
             => \/ PcRank(pc') > PcRank(pc)
                \/ pc' = pc /\ offset < n /\ offset' >= offset + 1
        /\ pc = "events" /\ pc' # "done"
             => /\ offset < n
                /\ offset' >= offset + 1
                /\ Len(actions') >= Len(actions)
                /\ \A j \in 1..Len(new) :
                     /\ new[j].start >= offset + 8
                     /\ new[j].end >= new[j].start + 1
                     /\ j > 1 => new[j].start >= new[j - 1].start + 1
        /\ pc = "gd_name" /\ pc' = "gd_players" /\ o2 < n
             => /\ dec.pos <= n
                /\ groups >= 1
                /\ Len(dec.result) <= 7 * groups
                /\ offset' >= dec.pos
        /\ pc = "gd_search"
             => /\ offset' >= offset
                /\ offset' > offset => offset' < n

\* C28: parseGameData terminates on every finite payload: each of its
\* steps either leaves a loop for a later part of the function or is taken
\* before the end of the data and moves the cursor forward, and each
\* iteration of the event loop, of the
\* command-frame loop, of the per-frame action loop, of the
\* encoded-string loop and of the game-start search moves its cursor
\* forward by at least one byte: an event-loop step is taken before the
\* end of the data and leaves the cursor further on; the actions of a
\* time-slot block each span at least one byte and start after the start
\* of the action before them; the encoded-string decoder ends one byte
\* per control byte and one byte per decoded byte after its start, at
\* most at the end of the data; the game-start search leaves the cursor
\* where it was or further on, inside the data.
C28_LoopsAdvance == [][LoopsAdvance]_vars

\* the long settings were decoded over two groups, the block of two
\* command frames gave three actions, the chat block a message, and the
\* event loop ended at the end of the data
C28_Witness ==
    /\ pc = "done"
    /\ err = "nil"
    /\ Len(encodedData) = 10
    /\ Len(actions) = 3
    /\ actions[2].end - actions[2].start = 10
    /\ Len(chatMessages) = 1
    /\ offset = DataLen(data)

\* C29: every action that lies inside the payload and is decoded from a
\* command frame of a time-slot block inside the payload consumes bytes
\* only inside that frame's
\* declared block, from the byte after the u16 block length to block-length
\* bytes later, so that its raw payload holds no byte of the next command
\* frame or of the next event block.
C29_ActionInsideFrame ==
    [][LET n == U16(data, offset + 1)
           end == offset + 3 + n
           new == {actions'[j] : j \in (Len(actions) + 1)..Len(actions')}
       IN  (pc = "events" /\ offset + 5 <= DataLen(data)
              /\ At(data, offset) \in TimeSlotOpcodes
              /\ n > 2 /\ end <= DataLen(data))
             => \A a \in new :
                  a.end <= DataLen(data)
                    => \E f \in FrameStarts(data, offset + 5, end) :
                          /\ a.start >= f + 3
                          /\ a.end <= f + 3 + U16(data, f + 1)]_vars

\* the leave-game blocks read so far that name the player id with the u32
\* result field 0x00000009
WonBlocks(id) ==
    {b \in {14 * k : k \in 0..(MaxLeaves - 1)} :
        /\ b + 14 <= offset
        /\ At(data, b + 5) = id
        /\ U32D(data, b + 6) = U32(0, LeaveResultWon)}

\* C30: a player's leave result is Won, and Winner() returns that player,
\* only when the u32 result field of a leave-game block naming the player
\* equals 0x09; a result that differs from 0x09 in its upper 24 bits, such
\* as 0x00000109, is never classified as Won.
C30_WonOnlyForNine ==
    pc \in {"leave", "leave_done"}
      => /\ \A i \in 1..Len(players) :
              players[i].LeaveResult = LeaveResultWon
                => WonBlocks(players[i].ID) # {}
         /\ Winner(players) # 0 => WonBlocks(players[Winner(players)].ID) # {}

=============================================================================
